---- MODULE Spec2Model ----
(***************************************************************************)
(* A model of the JSXGraph line element (src/src/Line.js) and text element *)
(* (src/src/base/text.js): the dirty-flag update protocol, the rendering   *)
(* pass, the homogeneous standard form, the slope computation and the hit  *)
(* test; of the grid (JXG.createGrid): the data of the major and the minor *)
(* grid; and of the element factories and the parents they accept, the     *)
(* free line of createLine and the default ticks of createAxis.            *)
(*                                                                         *)
(* Numbers.  JavaScript numbers are modelled as "extended numbers":        *)
(*   <<"fin", n>>  a finite value, n an integer count of quanta,           *)
(*   <<"inf", s>>  +Infinity (s = 1) or -Infinity (s = -1),                *)
(*   <<"nan", 0>>  NaN.                                                    *)
(* One quantum is half of JXG.Math.eps, so that two coordinates can differ *)
(* by less than eps without being equal.  A quotient is kept as the pair   *)
(* of its numerator and denominator.                                       *)
(***************************************************************************)
EXTENDS Integers, Sequences, FiniteSets, TLC

(***************************************************************************)
(* Bounds of the model.                                                    *)
(***************************************************************************)
MaxTraces == 1
MaxTicksLen == 1
MaxAttached == 2
MaxRecomputes == 2
MaxGeomCoord == 2
MaxHitCoord == 2
MaxHitR == 2
MaxParents == 3
MaxCoef == 2
MaxAxisLen == 10

(* JXG.Math.eps, in quanta. *)
Eps == 2

(* The number 1 (one pixel in screen coordinates, one unit in user         *)
(* coordinates), in quanta.  Hit tests and grids work on whole and half    *)
(* units, far above eps.                                                   *)
One == 8

(***************************************************************************)
(* Extended-number arithmetic (IEEE-754 semantics of +, -, *, Math.abs,    *)
(* isNaN and the comparisons).                                             *)
(***************************************************************************)
Fin(n) == <<"fin", n>>
NaN == <<"nan", 0>>
PosInf == <<"inf", 1>>
NegInf == <<"inf", -1>>

IsNaN(a) == a[1] = "nan"
IsFinite(a) == a[1] = "fin"

Sign(n) == IF n > 0 THEN 1 ELSE IF n < 0 THEN -1 ELSE 0
Abs(n) == IF n < 0 THEN -n ELSE n

XNeg(a) ==
    IF a[1] = "nan" THEN NaN
    ELSE IF a[1] = "inf" THEN <<"inf", -a[2]>>
    ELSE Fin(-a[2])

XAdd(a, b) ==
    IF a[1] = "nan" \/ b[1] = "nan" THEN NaN
    ELSE IF a[1] = "inf" /\ b[1] = "inf" THEN (IF a[2] = b[2] THEN a ELSE NaN)
    ELSE IF a[1] = "inf" THEN a
    ELSE IF b[1] = "inf" THEN b
    ELSE Fin(a[2] + b[2])

XSub(a, b) == XAdd(a, XNeg(b))

XMul(a, b) ==
    IF a[1] = "nan" \/ b[1] = "nan" THEN NaN
    ELSE IF a[1] = "inf" \/ b[1] = "inf"
         THEN (IF Sign(a[2]) * Sign(b[2]) = 0 THEN NaN
               ELSE <<"inf", Sign(a[2]) * Sign(b[2])>>)
    ELSE Fin(a[2] * b[2])

XAbs(a) ==
    IF a[1] = "nan" THEN NaN
    ELSE IF a[1] = "inf" THEN PosInf
    ELSE Fin(IF a[2] < 0 THEN -a[2] ELSE a[2])

XLt(a, b) ==
    IF a[1] = "nan" \/ b[1] = "nan" THEN FALSE
    ELSE IF a[1] = "inf" /\ b[1] = "inf" THEN a[2] < b[2]
    ELSE IF a[1] = "inf" THEN a[2] < 0
    ELSE IF b[1] = "inf" THEN b[2] > 0
    ELSE a[2] < b[2]

XLe(a, b) == ~IsNaN(a) /\ ~IsNaN(b) /\ (a = b \/ XLt(a, b))

XGe(a, b) == XLe(b, a)

(* Exact division of an extended number by a positive integer. *)
XDivExact(a, d) == IF a[1] = "fin" THEN Fin(a[2] \div d) ELSE a

(***************************************************************************)
(* State.                                                                  *)
(*   kind          which element the board holds: a Line or a Text         *)
(*   board         the viewport: screen origin (ox, oy) and the scale      *)
(*                 unit*zoom per axis as a fraction kxN/kxD, kyN/kyD       *)
(*   point1/2      usrCoords [z, x, y] of the line's defining points       *)
(*   needsUpdate, visible, isReal, traced, numTraces, stdform, ticks,      *)
(*   defaultTicks  the fields of JXG.Line of the same names                *)
(*   tickId        the id field of each ticks object (0: empty)            *)
(*   slope         the value the last getSlope call returned               *)
(*   t*, plaintext, plaintextOld, needsSizeUpdate: the fields of JXG.Text  *)
(*   rcalls        the renderer calls made by the last operation           *)
(*   tcalcs        the calculateTicksCoordinates calls of the last         *)
(*                 operation, each with the stdform the ticks object found *)
(*   lastOp        the last operation                                      *)
(*   lastVis       the last of renderer.show / renderer.hide called, if any*)
(*   recomputes    recomputations by update() since needsUpdate was last   *)
(*                 cleared (saturating)                                    *)
(*   straightFirst, straightLast, r                                        *)
(*                 visProp.straightFirst/straightLast and the hit radius r *)
(*                 (options.precision.hasPoint, in pixels) of JXG.Line     *)
(*   hitX, hitY    the pointer position hasPoint is asked about, in pixels *)
(*   has           the value the last hasPoint call returned               *)
(*   bbox          board.getBoundingBox(): [left, top, right, bottom]      *)
(*   gridAttr      the attributes of the grid that no operation writes     *)
(*   majorstep, minorelements                                              *)
(*                 visProp.majorstep of majorGrid and visProp.minorelements*)
(*                 of minorGrid: isArray tells an array from a single value*)
(*   majorStep, majorRadiusX, majorRadiusY                                 *)
(*                 the variables of createGrid that both updateDataArray   *)
(*                 functions share                                         *)
(*   majorGrid, minorGrid                                                  *)
(*                 dataX and dataY of the two curves                       *)
(*   emitted       the centers of the markers the last updateDataArray of  *)
(*                 each grid emitted                                       *)
(*   scanned       the numbers of columns and rows the last updateDataArray*)
(*                 enumerated                                              *)
(*   parents       the parents array handed to a factory: the kind of each *)
(*                 parent, or the values of the three coefficients of a    *)
(*                 free line                                               *)
(*   result, created                                                       *)
(*                 how the last factory call ended and the number of       *)
(*                 elements it made                                        *)
(*   axis          the clipped length createAxis found and the distance it *)
(*                 handed to the default ticks                             *)
(***************************************************************************)
VARIABLES kind, board, point1, point2, needsUpdate, visible, isReal, traced,
          numTraces, stdform, ticks, defaultTicks, tickId, slope,
          tNeedsUpdate, tFrozen, tDisplay, tContent, tAnchor, tCoords,
          plaintext, plaintextOld, needsSizeUpdate, tSize,
          rcalls, tcalcs, lastOp, lastVis, recomputes,
          straightFirst, straightLast, r, hitX, hitY, has,
          bbox, gridAttr, majorstep, minorelements, majorStep, majorRadiusX,
          majorRadiusY, majorGrid, minorGrid, emitted, scanned,
          parents, result, created, axis

pointVars == <<point1, point2>>
lineVars == <<needsUpdate, visible, isReal, traced, numTraces, stdform,
              ticks, defaultTicks, tickId, slope>>
textVars == <<tNeedsUpdate, tFrozen, tDisplay, tContent, tAnchor, tCoords,
              plaintext, plaintextOld, needsSizeUpdate, tSize>>
hitVars == <<straightFirst, straightLast, r, hitX, hitY, has>>
gridVars == <<bbox, gridAttr, majorstep, minorelements, majorStep, majorRadiusX,
              majorRadiusY, majorGrid, minorGrid, emitted, scanned>>
factoryVars == <<parents, result, created, axis>>
vars == <<kind, board, point1, point2, needsUpdate, visible, isReal, traced,
          numTraces, stdform, ticks, defaultTicks, tickId, slope,
          tNeedsUpdate, tFrozen, tDisplay, tContent, tAnchor, tCoords,
          plaintext, plaintextOld, needsSizeUpdate, tSize,
          rcalls, tcalcs, lastOp, lastVis, recomputes,
          straightFirst, straightLast, r, hitX, hitY, has,
          bbox, gridAttr, majorstep, minorelements, majorStep, majorRadiusX,
          majorRadiusY, majorGrid, minorGrid, emitted, scanned,
          parents, result, created, axis>>

(***************************************************************************)
(* Viewport and coordinates.                                               *)
(***************************************************************************)
IdentityBoard == [ox |-> 0, oy |-> 0, kxN |-> 1, kxD |-> 1, kyN |-> 1, kyD |-> 1]

(* scrCoords [1, sx, sy] of a point with usrCoords U:                      *)
(* sx = ox + x*unitX*zoomX, sy = oy - y*unitY*zoomY.                       *)
ScrCoords(U, B) ==
    <<Fin(1),
      XAdd(Fin(B.ox), XDivExact(XMul(U[2], Fin(B.kxN)), B.kxD)),
      XSub(Fin(B.oy), XDivExact(XMul(U[3], Fin(B.kyN)), B.kyD))>>

(* A point the viewport maps to whole quanta. *)
OnLattice(U, B) ==
    /\ IsFinite(U[2]) => (U[2][2] * B.kxN) % B.kxD = 0
    /\ IsFinite(U[3]) => (U[3][2] * B.kyN) % B.kyD = 0

UsrPoint(x, y) == <<Fin(1), x, y>>

(***************************************************************************)
(* board.algebra.crossProduct and innerProduct of two 3-vectors.           *)
(***************************************************************************)
crossProduct(c1, c2) ==
    <<XSub(XMul(c1[2], c2[3]), XMul(c1[3], c2[2])),
      XSub(XMul(c1[3], c2[1]), XMul(c1[1], c2[3])),
      XSub(XMul(c1[1], c2[2]), XMul(c1[2], c2[1]))>>

innerProduct(a, b) ==
    XAdd(XAdd(XMul(a[1], b[1]), XMul(a[2], b[2])), XMul(a[3], b[3]))

(***************************************************************************)
(* GeometryElement.normalize: the line's stdform is divided by             *)
(* sqrt(a*a + b*b).  The square root is not an integer, so the normalized  *)
(* stdform is kept as the vector v = [c, a, b, stdform[3]] together with   *)
(* n2 = a*a + b*b, and stands for v / sqrt(n2).                            *)
(***************************************************************************)
normalize(v) ==
    [v |-> v, n2 |-> XAdd(XMul(v[2], v[2]), XMul(v[3], v[3]))]

(***************************************************************************)
(* Line.updateStdform: stdform := normalize(cross(point1.usr, point2.usr)) *)
(***************************************************************************)
updateStdform_swapped(P1, P2, B) ==
    LET v == crossProduct(P1, P2)
    IN  normalize(<<v[1], v[3], v[2], Fin(0)>>)

updateStdform_scr(P1, P2, B) ==
    LET v == crossProduct(P1, ScrCoords(P2, B))
    IN  normalize(<<v[1], v[2], v[3], Fin(0)>>)

updateStdform(P1, P2, B) ==
    LET v == crossProduct(P1, P2)
    IN  normalize(<<v[1], v[2], v[3], Fin(0)>>)

(***************************************************************************)
(* Line.update, lines 326-336: the part guarded by needsUpdate.  The       *)
(* result is the stdform after the call, the calculateTicksCoordinates     *)
(* calls made (one per defined entry of this.ticks, each finding the       *)
(* stdform of that moment), and needsUpdate after the call.                *)
(***************************************************************************)
calcTicks(tk, sf) ==
    LET defined == SelectSeq(tk, LAMBDA t : t # 0)
    IN  [i \in 1..Len(defined) |-> [tick |-> defined[i], sf |-> sf]]

update_effect_ticksFirst(nu, sfOld, P1, P2, B, tk) ==
    IF nu
    THEN [stdform |-> updateStdform(P1, P2, B),
          tcalcs |-> calcTicks(tk, sfOld),
          needsUpdate |-> nu]
    ELSE [stdform |-> sfOld, tcalcs |-> <<>>, needsUpdate |-> nu]

update_effect_clears(nu, sfOld, P1, P2, B, tk) ==
    IF nu
    THEN LET sf == updateStdform(P1, P2, B)
         IN  [stdform |-> sf, tcalcs |-> calcTicks(tk, sf), needsUpdate |-> FALSE]
    ELSE [stdform |-> sfOld, tcalcs |-> <<>>, needsUpdate |-> nu]

update_effect_always(nu, sfOld, P1, P2, B, tk) ==
    LET sf == updateStdform(P1, P2, B)
    IN  [stdform |-> sf, tcalcs |-> calcTicks(tk, sf), needsUpdate |-> nu]

update_effect(nu, sfOld, P1, P2, B, tk) ==
    IF nu
    THEN LET sf == updateStdform(P1, P2, B)
         IN  [stdform |-> sf, tcalcs |-> calcTicks(tk, sf), needsUpdate |-> nu]
    ELSE [stdform |-> sfOld, tcalcs |-> <<>>, needsUpdate |-> nu]

(***************************************************************************)
(* Line.updateRenderer.                                                    *)
(***************************************************************************)
(* line 365: the guard of the whole body *)
rendererGuard_ignoresVisible(nu, vis) == nu

rendererGuard(nu, vis) == nu /\ vis

(* line 367: isNaN of the sum of the four user coordinates *)
isRealOf_point1Only(P1, P2) ==
    ~IsNaN(XAdd(P1[2], P1[3]))

isRealOf(P1, P2) ==
    ~IsNaN(XAdd(XAdd(XAdd(P1[2], P1[3]), P2[2]), P2[3]))

(* lines 368-379: the renderer calls, given isReal before and after *)
renderCalls_steady(wasReal, real) ==
    IF real THEN <<"show", "updateLine">> ELSE <<"hide">>

renderCalls_alwaysUpdateLine(wasReal, real) ==
    IF real
    THEN (IF wasReal # real THEN <<"show">> ELSE <<>>) \o <<"updateLine">>
    ELSE (IF wasReal # real THEN <<"hide">> ELSE <<>>) \o <<"updateLine">>

renderCalls(wasReal, real) ==
    IF real
    THEN (IF wasReal # real THEN <<"show">> ELSE <<>>) \o <<"updateLine">>
    ELSE (IF wasReal # real THEN <<"hide">> ELSE <<>>)

(***************************************************************************)
(* Line.getSlope.  The result is the sentinel "INF" (inf = TRUE) or the    *)
(* quotient num/den.                                                       *)
(***************************************************************************)
INF == [inf |-> TRUE, num |-> Fin(0), den |-> Fin(0)]
NoSlope == [inf |-> FALSE, num |-> Fin(0), den |-> Fin(0)]

getSlope_smallerSpan(P1, P2, B) ==
    LET s1 == ScrCoords(P1, B)
        s2 == ScrCoords(P2, B)
        useUsr == XGe(XAbs(XSub(s2[2], s1[2])), XAbs(XSub(P2[2], P1[2])))
        q1 == IF useUsr THEN P1 ELSE s1
        q2 == IF useUsr THEN P2 ELSE s2
    IN  IF XGe(XAbs(XSub(q2[2], q1[2])), Fin(Eps))
        THEN [inf |-> FALSE, num |-> XSub(q2[3], q1[3]), den |-> XSub(q2[2], q1[2])]
        ELSE INF

getSlope(P1, P2, B) ==
    LET s1 == ScrCoords(P1, B)
        s2 == ScrCoords(P2, B)
        useUsr == XLe(XAbs(XSub(s2[2], s1[2])), XAbs(XSub(P2[2], P1[2])))
        q1 == IF useUsr THEN P1 ELSE s1
        q2 == IF useUsr THEN P2 ELSE s2
    IN  IF XGe(XAbs(XSub(q2[2], q1[2])), Fin(Eps))
        THEN [inf |-> FALSE, num |-> XSub(q2[3], q1[3]), den |-> XSub(q2[2], q1[2])]
        ELSE INF

(***************************************************************************)
(* Line.getRise: Math.round(p1Scr[2] - p1Scr[1]*(p2Scr[2] - p1Scr[2]) /    *)
(* (p2Scr[1] - p1Scr[1])), for points with finite coordinates.  The result *)
(* is a whole number of pixels, given in quanta; a division by zero gives  *)
(* NaN (0/0) or an infinity.  Math.round(v) is floor(v + 0.5).             *)
(***************************************************************************)
getRise(P1, P2, B) ==
    LET s1 == ScrCoords(P1, B)
        s2 == ScrCoords(P2, B)
        dx == s2[2][2] - s1[2][2]
        dy == s2[3][2] - s1[3][2]
        n  == Sign(dx) * (s1[3][2] * dx - s1[2][2] * dy)
        d  == Abs(dx)
    IN  IF dx # 0
        THEN Fin(One * ((2 * n + One * d) \div (2 * One * d)))
        ELSE XSub(s1[3], IF s1[2][2] * dy = 0 THEN NaN
                         ELSE IF s1[2][2] * dy > 0 THEN PosInf ELSE NegInf)

(***************************************************************************)
(* Line.hasPoint.  x, y and the radius are whole pixels.                   *)
(***************************************************************************)
(* lines 180-184: the stdform in screen coordinates, each coefficient      *)
(* multiplied by the positive number kxN*kyN to keep it whole; sf is the   *)
(* normalized stdform v / sqrt(n2).                                        *)
scrStdform_plusC2(sf, B) ==
    <<sf.v[1][2] * B.kxN * B.kyN - sf.v[2][2] * B.ox * B.kxD * B.kyN
          + sf.v[3][2] * B.oy * B.kyD * B.kxN,
      sf.v[2][2] * B.kxD * B.kyN,
      sf.v[3][2] * B.kyD * B.kxN>>

scrStdform(sf, B) ==
    <<sf.v[1][2] * B.kxN * B.kyN - sf.v[2][2] * B.ox * B.kxD * B.kyN
          + sf.v[3][2] * B.oy * B.kyD * B.kxN,
      sf.v[2][2] * B.kxD * B.kyN,
      -(sf.v[3][2] * B.kyD * B.kxN)>>

(* lines 185-186: Math.abs(s) < 0.5 for s = innerProduct(c, scrCoords);    *)
(* with c = ck / (kxN*kyN*sqrt(n2)) this is 4*sk^2 < (kxN*kyN)^2 * n2      *)
(* (in quanta: 4*sk^2 < One^2 * (kxN*kyN)^2 * n2).  A stdform 0/0 gives    *)
(* s = NaN and the comparison is false.                                    *)
hasPointStraight(sf, B, x, y) ==
    LET ck == scrStdform(sf, B)
        sk == ck[1] + ck[2] * (x * One) + ck[3] * (y * One)
        k  == B.kxN * B.kyN
    IN  4 * sk * sk < One * One * k * k * sf.n2[2]

(* line 193, one i: Math.abs(y - (slope*(x+i) + rise)) < this.r *)
nearLine(sl, rise, rad, x, y, i) ==
    /\ IsFinite(rise)
    /\ Abs(sl.den[2] * (y * One - rise[2]) - sl.num[2] * ((x + i) * One))
           < rad * One * Abs(sl.den[2])

(* lines 192-194: for (i = -r; i < r; i++) has = has | ... *)
inBand(sl, rise, rad, x, y) ==
    \E i \in (-rad)..(rad - 1) : nearLine(sl, rise, rad, x, y, i)

(* Coords.distance in screen coordinates, squared. *)
distance2(a, b) ==
    (a[2][2] - b[2][2]) * (a[2][2] - b[2][2])
        + (a[3][2] - b[3][2]) * (a[3][2] - b[3][2])

(* line 199: P does not lie between P1 and P2 *)
notBetween_both(distP1P, distP2P, distP1P2) ==
    distP1P > distP1P2 /\ distP2P > distP1P2

notBetween(distP1P, distP2P, distP1P2) ==
    distP1P > distP1P2 \/ distP2P > distP1P2

(* lines 196-210: has is reset to false *)
clamped(P1, P2, B, sF, sL, x, y) ==
    LET coords == <<Fin(1), Fin(x * One), Fin(y * One)>>
        distP1P == distance2(coords, ScrCoords(P1, B))
        distP2P == distance2(coords, ScrCoords(P2, B))
        distP1P2 == distance2(ScrCoords(P1, B), ScrCoords(P2, B))
    IN  /\ notBetween(distP1P, distP2P, distP1P2)
        /\ IF distP1P < distP2P THEN ~sF ELSE ~sL

(* lines 214-240: the vertical line *)
hasPointVertical(P1, P2, B, sF, sL, rad, x, y) ==
    LET p1Scr == ScrCoords(P1, B)
        p2Scr == ScrCoords(P2, B)
        xq == x * One
        yq == y * One
    IN  /\ Abs(xq - p1Scr[2][2]) < rad * One
        /\ ~(/\ ~sF
             /\ \/ p1Scr[3][2] < p2Scr[3][2] /\ yq < p1Scr[3][2]
                \/ p1Scr[3][2] > p2Scr[3][2] /\ yq > p1Scr[3][2])
        /\ ~(/\ ~sL
             /\ \/ p1Scr[3][2] < p2Scr[3][2] /\ yq > p2Scr[3][2]
                \/ p1Scr[3][2] > p2Scr[3][2] /\ yq < p2Scr[3][2])

hasPoint(P1, P2, B, sf, sF, sL, rad, x, y) ==
    IF sF /\ sL
    THEN hasPointStraight(sf, B, x, y)
    ELSE LET sl == getSlope(P1, P2, B)
         IN  IF sl # INF
             THEN /\ inBand(sl, getRise(P1, P2, B), rad, x, y)
                  /\ ~clamped(P1, P2, B, sF, sL, x, y)
             ELSE hasPointVertical(P1, P2, B, sF, sL, rad, x, y)

(***************************************************************************)
(* Grid (JXG.createGrid).  Lengths in user coordinates are whole quanta.   *)
(* An option value is a number <<"num", n>>, a percentage string           *)
(* <<"pct", p>> ("p%"), a pixel string <<"px", n>> ("npx") or the string   *)
(* "auto"; a variable not yet assigned holds Undefined.                    *)
(***************************************************************************)
Num(n) == <<"num", n>>
Pct(n) == <<"pct", n>>
Px(n) == <<"px", n>>
Auto == <<"auto", 0>>
Undefined == <<>>

(* maximum number of vertical or horizontal grid elements *)
maxLines == 5000

(* Type.parseNumber(v, percentOfWhat, convertPx): a literal number, a      *)
(* percentage of percentOfWhat, or pixels converted by the factor          *)
(* convertPx.                                                              *)
parseNumber(v, percentOfWhat, convertPx) ==
    CASE v[1] = "pct" -> (v[2] * percentOfWhat) \div 100
      [] v[1] = "px"  -> v[2] * convertPx
      [] OTHER        -> v[2]

(* A step that is no finite number: Infinity (-Infinity is its negative)   *)
(* and NaN, as integers beyond every length of the model.                  *)
Infinity == 16777216
NotANumber == 33554432
IsNumber(v) == Abs(v) < Infinity

(* a / b of lines 656 and 667: exact where b divides a, and Infinity,      *)
(* -Infinity or NaN where b is 0.                                          *)
Quot(a, b) ==
    IF b = 0
    THEN (IF a = 0 \/ a = NotANumber THEN NotANumber
          ELSE IF a > 0 THEN Infinity ELSE -Infinity)
    ELSE IF IsNumber(a) THEN a \div b ELSE a

(* Mat.roundToStep(value, step): the nearest multiple of step below value, *)
(* Math.floor(value / step) * step; NaN for a step that is 0 (value / 0 is *)
(* infinite or NaN) or no finite number (0 * Infinity).                    *)
roundToStep(value, step) ==
    IF step = 0 \/ ~IsNumber(step) THEN NotANumber
    ELSE IF step > 0 THEN (value \div step) * step
    ELSE ((-value) \div (-step)) * step

(* lines 499-516: one axis of majorStep; axisDist is the distance of the   *)
(* major ticks of the parent axis, 0 when there is no such axis.           *)
resolveStep(v, axisDist, extent, px) ==
    IF v = Auto
    THEN (IF axisDist # 0 THEN axisDist ELSE One)
    ELSE parseNumber(v, extent, px)

(* lines 518-530: forceSquare; px[i] is the length of a pixel (1/unitX,    *)
(* 1/unitY), so that step*unit = step/px.                                  *)
forceSquareStep_swapped(st, forceSquare, px) ==
    LET xSmaller == st[1] * px[2] <= st[2] * px[1]
        fromX == <<st[1], (st[1] * px[2]) \div px[1]>>
        fromY == <<(st[2] * px[1]) \div px[2], st[2]>>
    IN  CASE forceSquare = "min" -> IF xSmaller THEN fromY ELSE fromX
          [] forceSquare \in {"max", "true"} -> IF xSmaller THEN fromX ELSE fromY
          [] OTHER -> st

forceSquareStep(st, forceSquare, px) ==
    LET xSmaller == st[1] * px[2] <= st[2] * px[1]
        fromX == <<st[1], (st[1] * px[2]) \div px[1]>>
        fromY == <<(st[2] * px[1]) \div px[2], st[2]>>
    IN  CASE forceSquare = "min" -> IF xSmaller THEN fromX ELSE fromY
          [] forceSquare \in {"max", "true"} -> IF xSmaller THEN fromY ELSE fromX
          [] OTHER -> st

(* lines 483-530: the global majorStep after the resolution.  bb is the    *)
(* bounding box [left, top, right, bottom].                                *)
resolveMajorStep(ms, attr, bb) ==
    forceSquareStep(<<resolveStep(ms.v[1], attr.axisDist[1], Abs(bb[2] - bb[4]), attr.px[1]),
                      resolveStep(ms.v[2], attr.axisDist[2], Abs(bb[1] - bb[3]), attr.px[2])>>,
                    attr.forcesquare, attr.px)

(* lines 483-530: majorStep is visProp.majorstep itself when that is an    *)
(* array, and a new array when it is a single value; the assignments to    *)
(* majorStep[0] and majorStep[1] then write into the option value.         *)
majorstepAfter(ms, st) ==
    IF ms.isArray THEN [isArray |-> TRUE, v |-> <<Num(st[1]), Num(st[2])>>] ELSE ms

(* lines 552-569: majorRadiusX/Y from sizeX/sizeY (sizeY = sizeX when      *)
(* only sizeX is given): a percentage of half the step, or pixels.         *)
majorRadius(size, step, pxLen) ==
    IF size[1] = "pct"
    THEN (size[2] * step) \div 200
    ELSE (size[2] * pxLen) \div 2

(* lines 576-579 and 695-698: the abort criterion. *)
finite(bb, st, strictX) ==
    /\ IsNumber(roundToStep(bb[1], st[1]))
    /\ IsNumber(roundToStep(bb[2], st[2]))
    /\ IF strictX THEN Abs(bb[3]) < Abs(st[1] * maxLines)
                  ELSE Abs(bb[3]) <= Abs(st[1] * maxLines)
    /\ Abs(bb[4]) < Abs(st[2] * maxLines)

(* The loops of lines 584-585 and 703-704: the x of the columns, from      *)
(* startX up to bbox[2], and the y of the rows, from startY down to        *)
(* bbox[3]; none when the abort criterion holds.                           *)
columns(bb, st, ok) ==
    LET startX == roundToStep(bb[1], st[1])
    IN  IF ok /\ startX <= bb[3]
        THEN [k \in 1..((bb[3] - startX) \div st[1] + 1) |-> startX + (k - 1) * st[1]]
        ELSE <<>>

rows(bb, st, ok) ==
    LET startY == roundToStep(bb[2], st[2])
    IN  IF ok /\ startY >= bb[4]
        THEN [k \in 1..((startY - bb[4]) \div st[2] + 1) |-> startY - (k - 1) * st[2]]
        ELSE <<>>

(* The loops of lines 584-585 and 703-704 do not end: the abort criterion  *)
(* does not hold, the first row is inside the box, and y -= step does not  *)
(* decrease y, or the first column is inside the box and x += step does    *)
(* not increase x.                                                         *)
hangs(bb, st, ok) ==
    /\ ok
    /\ roundToStep(bb[2], st[2]) >= bb[4]
    /\ \/ st[2] < 0
       \/ st[1] < 0 /\ roundToStep(bb[1], st[1]) <= bb[3]

(* The candidates in the order of the loops: rows outside, columns inside. *)
candidates(xs, ys) ==
    [k \in 1..(Len(xs) * Len(ys)) |->
        <<xs[((k - 1) % Len(xs)) + 1], ys[((k - 1) \div Len(xs)) + 1]>>]

(* lines 587-599: the major grid skips the candidate (x, y). *)
skipMajor_zero0Drawn(c, attr, bb, rX, rY) ==
    \/ ~attr.drawzerox /\ Abs(c[2]) < Eps /\ Abs(c[1]) >= Eps
    \/ ~attr.drawzeroy /\ Abs(c[1]) < Eps /\ Abs(c[2]) >= Eps
    \/ ~attr.includeboundaries /\ (\/ c[1] <= bb[1] + rX
                                   \/ c[1] >= bb[3] - rX
                                   \/ c[2] <= bb[4] + rY
                                   \/ c[2] >= bb[2] - rY)

skipMajor_boundaryKept(c, attr, bb, rX, rY) ==
    \/ ~attr.drawzero0 /\ Abs(c[2]) < Eps /\ Abs(c[1]) < Eps
    \/ ~attr.drawzerox /\ Abs(c[2]) < Eps /\ Abs(c[1]) >= Eps
    \/ ~attr.drawzeroy /\ Abs(c[1]) < Eps /\ Abs(c[2]) >= Eps
    \/ ~attr.includeboundaries /\ (\/ c[1] < bb[1] + rX
                                   \/ c[1] > bb[3] - rX
                                   \/ c[2] < bb[4] + rY
                                   \/ c[2] > bb[2] - rY)

skipMajor_axesTakeOrigin(c, attr, bb, rX, rY) ==
    \/ ~attr.drawzero0 /\ Abs(c[2]) < Eps /\ Abs(c[1]) < Eps
    \/ ~attr.drawzerox /\ Abs(c[2]) < Eps
    \/ ~attr.drawzeroy /\ Abs(c[1]) < Eps
    \/ ~attr.includeboundaries /\ (\/ c[1] <= bb[1] + rX
                                   \/ c[1] >= bb[3] - rX
                                   \/ c[2] <= bb[4] + rY
                                   \/ c[2] >= bb[2] - rY)

skipMajor(c, attr, bb, rX, rY) ==
    \/ ~attr.drawzero0 /\ Abs(c[2]) < Eps /\ Abs(c[1]) < Eps
    \/ ~attr.drawzerox /\ Abs(c[2]) < Eps /\ Abs(c[1]) >= Eps
    \/ ~attr.drawzeroy /\ Abs(c[1]) < Eps /\ Abs(c[2]) >= Eps
    \/ ~attr.includeboundaries /\ (\/ c[1] <= bb[1] + rX
                                   \/ c[1] >= bb[3] - rX
                                   \/ c[2] <= bb[4] + rY
                                   \/ c[2] >= bb[2] - rY)

(* q = 4*tan(pi/8)/3 = 0.5523 and sqrt(2) = 1.4142 times a radius, to the  *)
(* quantum.                                                                *)
TimesQ(v) == (v * 5523) \div 10000
TimesSqrt2(v) == (v * 14142) \div 10000

(* The faces, by the last name of each case (face.toLowerCase() makes 'A'  *)
(* the case 'a'); "none" is a face without a case.                         *)
Faces ==
    {"point", "circle", "regularpolygon", "square", "diamond", "diamond2", "cross",
     "plus", "minus", "divide", "triangleup", "triangledown", "triangleleft",
     "triangleright", "line", "none"}

createDataArrayForFace_yUnbroken(face, x, y, radiusX, radiusY, bb, margin) ==
    <<<<Fin(x - radiusX), Fin(x + radiusX), NaN>>,
      <<Fin(y), Fin(y), Fin(y)>>>>

(* createDataArrayForFace: the outline of one marker, [x-list, y-list].    *)
(* The regular polygon is the one of polygonVertices = 4, whose angles     *)
(* t = 0, pi/2, ..., 2*pi have the sines and cosines 0, 1 and -1.          *)
createDataArrayForFace(face, x, y, radiusX, radiusY, bb, margin) ==
    CASE face = "point" ->
           <<<<Fin(x), Fin(x), NaN>>,
             <<Fin(y), Fin(y), NaN>>>>
      [] face = "circle" ->
           <<<<Fin(x + radiusX), Fin(x + radiusX), Fin(x + TimesQ(radiusX)), Fin(x),
               Fin(x - TimesQ(radiusX)), Fin(x - radiusX), Fin(x - radiusX), Fin(x - radiusX),
               Fin(x - TimesQ(radiusX)), Fin(x), Fin(x + TimesQ(radiusX)), Fin(x + radiusX),
               Fin(x + radiusX), NaN>>,
             <<Fin(y), Fin(y + TimesQ(radiusY)), Fin(y + radiusY), Fin(y + radiusY),
               Fin(y + radiusY), Fin(y + TimesQ(radiusY)), Fin(y), Fin(y - TimesQ(radiusY)),
               Fin(y - radiusY), Fin(y - radiusY), Fin(y - radiusY), Fin(y - TimesQ(radiusY)),
               Fin(y), NaN>>>>
      [] face = "regularpolygon" ->
           <<<<Fin(x), Fin(x - radiusX), Fin(x), Fin(x + radiusX), Fin(x), NaN>>,
             <<Fin(y - radiusY), Fin(y), Fin(y + radiusY), Fin(y), Fin(y - radiusY), NaN>>>>
      [] face = "square" ->
           <<<<Fin(x - radiusX), Fin(x + radiusX), Fin(x + radiusX), Fin(x - radiusX),
               Fin(x - radiusX), NaN>>,
             <<Fin(y + radiusY), Fin(y + radiusY), Fin(y - radiusY), Fin(y - radiusY),
               Fin(y + radiusY), NaN>>>>
      [] face = "diamond" ->
           <<<<Fin(x), Fin(x + radiusX), Fin(x), Fin(x - radiusX), Fin(x), NaN>>,
             <<Fin(y + radiusY), Fin(y), Fin(y - radiusY), Fin(y), Fin(y + radiusY), NaN>>>>
      [] face = "diamond2" ->
           <<<<Fin(x), Fin(x + TimesSqrt2(radiusX)), Fin(x), Fin(x - TimesSqrt2(radiusX)),
               Fin(x), NaN>>,
             <<Fin(y + TimesSqrt2(radiusY)), Fin(y), Fin(y - TimesSqrt2(radiusY)), Fin(y),
               Fin(y + TimesSqrt2(radiusY)), NaN>>>>
      [] face = "cross" ->
           <<<<Fin(x - radiusX), Fin(x + radiusX), NaN, Fin(x - radiusX), Fin(x + radiusX), NaN>>,
             <<Fin(y + radiusY), Fin(y - radiusY), NaN, Fin(y - radiusY), Fin(y + radiusY), NaN>>>>
      [] face = "plus" ->
           <<<<Fin(x - radiusX), Fin(x + radiusX), NaN, Fin(x), Fin(x), NaN>>,
             <<Fin(y), Fin(y), NaN, Fin(y - radiusY), Fin(y + radiusY), NaN>>>>
      [] face = "minus" ->
           <<<<Fin(x - radiusX), Fin(x + radiusX), NaN>>,
             <<Fin(y), Fin(y), NaN>>>>
      [] face = "divide" ->
           <<<<Fin(x), Fin(x), NaN>>,
             <<Fin(y - radiusY), Fin(y + radiusY), NaN>>>>
      [] face = "triangleup" ->
           <<<<Fin(x - radiusX), Fin(x), Fin(x + radiusX), NaN>>,
             <<Fin(y - radiusY), Fin(y), Fin(y - radiusY), NaN>>>>
      [] face = "triangledown" ->
           <<<<Fin(x - radiusX), Fin(x), Fin(x + radiusX), NaN>>,
             <<Fin(y + radiusY), Fin(y), Fin(y + radiusY), NaN>>>>
      [] face = "triangleleft" ->
           <<<<Fin(x + radiusX), Fin(x), Fin(x + radiusX), NaN>>,
             <<Fin(y + radiusY), Fin(y), Fin(y - radiusY), NaN>>>>
      [] face = "triangleright" ->
           <<<<Fin(x - radiusX), Fin(x), Fin(x - radiusX), NaN>>,
             <<Fin(y + radiusY), Fin(y), Fin(y - radiusY), NaN>>>>
      [] face = "line" ->
           <<<<Fin(x), Fin(x), NaN, Fin(bb[1] - margin[1]), Fin(bb[3] + margin[1]), NaN>>,
             <<Fin(bb[2] + margin[2]), Fin(bb[4] - margin[2]), NaN, Fin(y), Fin(y), NaN>>>>
      [] OTHER -> <<<<>>, <<>>>>

(* lines 601-603 and 850-852: dataX/dataY are the concatenation of the     *)
(* outlines of the emitted markers (all outlines of a face have the same   *)
(* length).                                                                *)
dataOf(face, centers, radiusX, radiusY, bb, margin) ==
    LET g == Len(createDataArrayForFace(face, 0, 0, radiusX, radiusY, bb, margin)[1])
        outline(j) == createDataArrayForFace(face, centers[((j - 1) \div g) + 1][1],
                                             centers[((j - 1) \div g) + 1][2],
                                             radiusX, radiusY, bb, margin)
    IN  [dataX |-> [j \in 1..(g * Len(centers)) |-> outline(j)[1][((j - 1) % g) + 1]],
         dataY |-> [j \in 1..(g * Len(centers)) |-> outline(j)[2][((j - 1) % g) + 1]]]

(* majorGrid.updateDataArray, lines 460-606: the values it leaves behind.  *)
majorUpdate(ms, attr, bb) ==
    LET st == resolveMajorStep(ms, attr, bb)
        rX == majorRadius(attr.sizex, st[1], attr.px[1])
        rY == majorRadius(attr.sizex, st[2], attr.px[2])
        ok == finite(bb, st, TRUE)
        hung == hangs(bb, st, ok)
        xs == IF hung THEN <<>> ELSE columns(bb, st, ok)
        ys == IF hung THEN <<>> ELSE rows(bb, st, ok)
        centers == SelectSeq(candidates(xs, ys),
                             LAMBDA c : ~skipMajor(c, attr, bb, rX, rY))
    IN  [majorStep |-> st, majorRadiusX |-> rX, majorRadiusY |-> rY, hangs |-> hung,
         scanned |-> <<Len(xs), Len(ys)>>, centers |-> centers,
         data |-> dataOf(attr.face, centers, rX, rY, bb,
                         <<attr.margin * attr.px[1], attr.margin * attr.px[2]>>)]

(* lines 640-667: minorElements per axis; minorTicks is the minorticks     *)
(* attribute of the parent axis, meaningful when there is such an axis.    *)
resolveElements(v, axisDist, minorTicks) ==
    IF v[1] = "num" THEN v[2]
    ELSE IF axisDist # 0 THEN minorTicks ELSE 0

(* lines 640-667: as majorStep, minorElements is the option value itself   *)
(* when that is an array.                                                  *)
minorelementsAfter(me, el, upTo) ==
    IF me.isArray
    THEN [isArray |-> TRUE,
          v |-> [i \in 1..2 |-> IF i <= upTo THEN Num(el[i]) ELSE me.v[i]]]
    ELSE me

(* lines 734-740: the distances of a minor candidate to the next major     *)
(* grid line towards 0 and away from 0.                                    *)
disTo0(x, step) == Abs(roundToStep(Abs(x), step) - Abs(x))

(* lines 742-778: the minor candidate overlaps a major element. *)
overlapsMajor(c, attr, M, rX, rY, mr) ==
    LET XdisTo0 == disTo0(c[1], M[1])
        XdisFrom0 == M[1] - XdisTo0
        YdisTo0 == disTo0(c[2], M[2])
        YdisFrom0 == M[2] - YdisTo0
        nearX == \/ XdisTo0 - mr[1] - rX < Eps
                 \/ XdisFrom0 - mr[1] - rX < Eps
        nearY == \/ YdisTo0 - mr[2] - rY < Eps
                 \/ YdisFrom0 - mr[2] - rY < Eps
    IN  IF attr.face = "line"
        THEN nearX \/ nearY
        ELSE /\ nearX
             /\ nearY
             /\ \/ attr.drawzero0
                \/ rY - Abs(c[2]) + mr[2] < Eps
                \/ rX - Abs(c[1]) + mr[1] < Eps
             /\ \/ attr.drawzerox
                \/ rY - Abs(c[2]) + mr[2] < Eps
                \/ rX + Abs(c[1]) - mr[1] < Eps
             /\ \/ attr.drawzeroy
                \/ rX - Abs(c[1]) + mr[1] < Eps
                \/ rY + Abs(c[2]) - mr[2] < Eps

(* lines 820-848: the minor candidate is too near to the boundary. *)
nearBoundary(c, bb, M, rX, rY, mr) ==
    LET x == c[1]
        y == c[2]
        dis0To == Abs(bb[1]) % M[1]
        dis1To == Abs(bb[2]) % M[2]
        dis2To == Abs(bb[3]) % M[1]
        dis3To == Abs(bb[4]) % M[2]
        dis0From == M[1] - dis0To
        dis1From == M[2] - dis1To
        dis2From == M[1] - dis2To
        dis3From == M[2] - dis3To
    IN  \/ x - mr[1] - bb[1] - rX + dis0From < Eps /\ dis0From - rX < Eps
        \/ x - mr[1] - bb[1] - rX - dis0To < Eps /\ dis0To - rX < Eps
        \/ -x - mr[1] + bb[3] - rX + dis2From < Eps /\ dis2From - rX < Eps
        \/ -x - mr[1] + bb[3] - rX - dis2To < Eps /\ dis2To - rX < Eps
        \/ -y - mr[2] + bb[2] - rY + dis1From < Eps /\ dis1From - rY < Eps
        \/ -y - mr[2] + bb[2] - rY - dis1To < Eps /\ dis1To - rY < Eps
        \/ y - mr[2] - bb[4] - rY + dis3From < Eps /\ dis3From - rY < Eps
        \/ y - mr[2] - bb[4] - rY - dis3To < Eps /\ dis3To - rY < Eps
        \/ -y - mr[2] + bb[2] < Eps
        \/ x - mr[1] - bb[1] < Eps
        \/ y - mr[2] - bb[4] < Eps
        \/ -x - mr[1] + bb[3] < Eps

(* lines 742-848: the minor grid skips the candidate. *)
skipMinor_overlapKept(c, attr, bb, M, rX, rY, mr) ==
    \/ ~attr.minordrawzeroy /\ Abs(c[1]) < Eps
    \/ ~attr.minordrawzerox /\ Abs(c[2]) < Eps
    \/ ~attr.includeboundaries /\ nearBoundary(c, bb, M, rX, rY, mr)

skipMinor(c, attr, bb, M, rX, rY, mr) ==
    \/ overlapsMajor(c, attr, M, rX, rY, mr)
    \/ ~attr.minordrawzeroy /\ Abs(c[1]) < Eps
    \/ ~attr.minordrawzerox /\ Abs(c[2]) < Eps
    \/ ~attr.includeboundaries /\ nearBoundary(c, bb, M, rX, rY, mr)

(* minorGrid.updateDataArray, lines 608-855, once majorStep and the major  *)
(* radii are assigned: the values it leaves behind.                        *)
minorUpdate(me, attr, bb, M, rX, rY) ==
    LET el == <<resolveElements(me.v[1], attr.axisDist[1], attr.axisMinorTicks),
                resolveElements(me.v[2], attr.axisDist[2], attr.axisMinorTicks)>>
        st == <<Quot(M[1], el[1] + 1), Quot(M[2], el[2] + 1)>>
        mr == <<parseNumber(attr.minorsizex, st[1] \div 2, attr.px[1]),
                parseNumber(attr.minorsizex, st[2] \div 2, attr.px[2])>>
        ok == finite(bb, st, FALSE)
        hung == hangs(bb, st, ok)
        xs == IF hung THEN <<>> ELSE columns(bb, st, ok)
        ys == IF hung THEN <<>> ELSE rows(bb, st, ok)
        centers == SelectSeq(candidates(xs, ys),
                             LAMBDA c : ~skipMinor(c, attr, bb, M, rX, rY, mr))
    IN  [elements |-> el, minorStep |-> st, minorRadius |-> mr, hangs |-> hung,
         scanned |-> <<Len(xs), Len(ys)>>, centers |-> centers,
         data |-> dataOf(attr.minorface, centers, mr[1], mr[2], bb,
                         <<attr.margin * attr.px[1], attr.margin * attr.px[2]>>)]

(***************************************************************************)
(* Factories (JXG.createLine, createSegment, createArrow, createAxis,      *)
(* createTangent, createGrid).  A parent is given by its kind: a point, a  *)
(* glider (a point with a slideObject) on a line, a curve, a circle or a   *)
(* polygon, a number, a function, an array of two coordinates, an array of *)
(* one entry, or an axis.  A call ends by returning an element, returning  *)
(* undefined, or throwing; created is the number of elements it has made   *)
(* on the board until then.                                                *)
(***************************************************************************)
Gliders == {"gliderOnLine", "gliderOnCurve", "gliderOnCircle", "gliderOnPolygon"}
ParentKinds == {"point", "number", "function", "coords", "short", "axis"} \cup Gliders

Returned(n) == [result |-> "element", created |-> n]
ReturnedUndefined == [result |-> "undefined", created |-> 0]
Threw == [result |-> "threw", created |-> 0]

(* parents[i].elementClass == JXG.OBJECT_CLASS_POINT; reading a property   *)
(* of the undefined parents[i] throws a TypeError.                         *)
IsPointClass(k) == k \in {"point"} \cup Gliders

(* JXG.IsPoint(v) and JXG.IsArray(v); false for undefined. *)
IsPoint(ps, i) == i <= Len(ps) /\ IsPointClass(ps[i])
IsArray(ps, i) == i <= Len(ps) /\ ps[i] \in {"coords", "short"}

(* Line 689 throws a TypeError when it reads parents[0] or parents[1] of a *)
(* shorter array.  A line through two points is one element; a free line   *)
(* and a line through two coordinate arrays are two points and the line.   *)
createLine(ps) ==
    IF Len(ps) = 0 \/ (IsPointClass(ps[1]) /\ Len(ps) = 1)
    THEN Threw
    ELSE IF IsPointClass(ps[1]) /\ IsPointClass(ps[2])
    THEN Returned(1)
    ELSE IF Len(ps) = 3
    THEN (IF \A i \in 1..3 : ps[i] \in {"number", "function"} THEN Returned(3) ELSE Threw)
    ELSE IF Len(ps) = 2 /\ ps[1] = "coords" /\ ps[2] = "coords"
    THEN Returned(3)
    ELSE Threw

createSegment(ps) == createLine(ps)

createArrow(ps) ==
    IF IsPoint(ps, 1) /\ IsPoint(ps, 2) THEN Returned(1) ELSE Threw

(* The points made from arrays, the line and its default ticks. *)
createAxis(ps) ==
    IF (IsArray(ps, 1) \/ IsPoint(ps, 1)) /\ (IsArray(ps, 2) \/ IsPoint(ps, 2))
    THEN Returned(Cardinality({i \in 1..2 : IsArray(ps, i)}) + 2)
    ELSE Threw

(* p = parents[0], c = p.slideObject: c.elementClass throws a TypeError    *)
(* when p is no glider; when c is neither a line, a curve nor a circle no  *)
(* branch is taken and the function ends without a return statement.      *)
createTangent(ps) ==
    IF Len(ps) = 0 \/ ps[1] \notin Gliders
    THEN Threw
    ELSE CASE ps[1] = "gliderOnLine"   -> createLine(<<"point", "point">>)
           [] ps[1] = "gliderOnCurve"  -> createLine(<<"function", "function", "function">>)
           [] ps[1] = "gliderOnCircle" -> createLine(<<"function", "function", "function">>)
           [] OTHER                    -> ReturnedUndefined

(***************************************************************************)
(* createAxis, lines 826-842: the distance of the default ticks.  Lengths  *)
(* and distances are whole numbers of 1/DistOne; the clipped length of the *)
(* axis, which board.renderer.calcStraight and Coords.distance give, is an *)
(* input.                                                                  *)
(***************************************************************************)
DistOne == 256

(* line 837: Math.round(len*0.2)*5, of len >= 1 *)
roundedToFives(len) == 5 * DistOne * ((2 * len + 5 * DistOne) \div (10 * DistOne))

(* line 841: while (4*dist > len) { dist *= 0.5; }, with the number of     *)
(* halvings made; done is FALSE when the loop is left at the resolution    *)
(* of the model and not by its condition.                                  *)
RECURSIVE halve(_, _, _)
halve(dist, len, k) ==
    IF 4 * dist > len
    THEN (IF dist % 2 = 0 THEN halve(dist \div 2, len, k + 1)
          ELSE [dist |-> dist, halvings |-> k, done |-> FALSE])
    ELSE [dist |-> dist, halvings |-> k, done |-> TRUE]

(* lines 829-842; ticksDistance is <<>> when the attribute is not given,   *)
(* L is the clipped length.                                                *)
defaultTicksDistance(ticksDistance, L) ==
    IF ticksDistance # <<>>
    THEN [len |-> L, dist |-> ticksDistance[1], halvings |-> 0, done |-> TRUE,
          given |-> TRUE]
    ELSE LET len == L \div 4
         IN  IF len >= DistOne
             THEN [len |-> L, dist |-> roundedToFives(len), halvings |-> 0,
                   done |-> TRUE, given |-> FALSE]
             ELSE LET h == halve(DistOne \div 4, len, 0)
                  IN  [len |-> L, dist |-> h.dist, halvings |-> h.halvings,
                       done |-> h.done, given |-> FALSE]

NoAxis == [len |-> 0, dist |-> 0, halvings |-> 0, done |-> TRUE, given |-> FALSE]

(* The major and the minor grid. *)
createGrid(ps) ==
    IF \/ Len(ps) > 2
       \/ Len(ps) >= 1 /\ ps[1] # "axis"
       \/ Len(ps) >= 2 /\ ps[2] # "axis"
    THEN Threw
    ELSE Returned(2)

(***************************************************************************)
(* The free line of JXG.createLine, lines 694-717: the parents are three   *)
(* numbers (or functions returning numbers) c = (c0, c1, c2) and the line  *)
(* goes through two invisible points given by their homogeneous            *)
(* coordinates (z, x, y).  Here the three coordinates of a point are whole *)
(* numbers of one unit.                                                    *)
(***************************************************************************)
(* point 1: (0, c, -b) *)
freeLinePoint1(c) == <<Fin(0), Fin(c[3]), Fin(-c[2])>>

(* point 2: (b^2+c^2, -ba+c, -ca-b) *)
freeLinePoint2_sum(c) ==
    <<Fin(c[3] * c[3] + c[2] * c[2]),
      Fin(c[2] * c[1] + c[3]),
      Fin(c[3] * c[1] + c[2])>>

freeLinePoint2(c) ==
    <<Fin(c[3] * c[3] + c[2] * c[2]),
      Fin(-c[2] * c[1] + c[3]),
      Fin(-c[3] * c[1] - c[2])>>

(* The values of the three parents. *)
Coefs == {<<c0, c1, c2>> : c0 \in (-MaxCoef)..MaxCoef, c1 \in (-MaxCoef)..MaxCoef,
                           c2 \in (-MaxCoef)..MaxCoef}

(***************************************************************************)
(* Text helpers.                                                           *)
(***************************************************************************)
Contents == {"a", "&#x61;", "bb"}

(* Text.utf8_decode: replaces each entity &#x..; by its character. *)
utf8_decode(str) == IF str = "&#x61;" THEN "a" ELSE str

TextLength(str) ==
    CASE str = "a" -> 1
      [] str = "bb" -> 2
      [] str = "&#x61;" -> 6
      [] OTHER -> 0

(* Text.crudeSizeEstimate: proportional to plaintext.length. *)
crudeSizeEstimate(str) == <<"est", TextLength(str)>>

(***************************************************************************)
(* Input domains.                                                          *)
(***************************************************************************)
TickObjs == {1}

(* The ticks objects of the board; a line's own operations are also called *)
(* with the second one where the ticks alone are looked at.                *)
AllTickObjs == {1, 2}

LifePoints ==
    {UsrPoint(Fin(0), Fin(0)), UsrPoint(Fin(1), Fin(2)), UsrPoint(NaN, Fin(0))}

RenderCoords == {Fin(0), Fin(1), NaN, PosInf, NegInf}
RenderPoints == {UsrPoint(x, y) : x \in RenderCoords, y \in RenderCoords}

GeomPoints ==
    {UsrPoint(Fin(x), Fin(y)) : x \in 0..MaxGeomCoord, y \in 0..MaxGeomCoord}

(* Hit tests: points on whole units, viewports of 1, 2 and 1/2 pixels per   *)
(* unit with the origin on a whole pixel, query points on whole pixels.    *)
HitPoints ==
    {UsrPoint(Fin(One * x), Fin(One * y)) : x \in 0..MaxHitCoord, y \in 0..MaxHitCoord}

HitAnchors ==
    {UsrPoint(Fin(0), Fin(0)), UsrPoint(Fin(One), Fin(One))}

HitViewports ==
    {IdentityBoard,
     [ox |-> -One, oy |-> One, kxN |-> 2, kxD |-> 1, kyN |-> 2, kyD |-> 1],
     [ox |-> 0, oy |-> 0, kxN |-> 1, kxD |-> 2, kyN |-> 1, kyD |-> 1]}

HitPixels == (-(MaxHitCoord + 1))..(MaxHitCoord + 1)

(* Grids.  A value given for both axes (isArray FALSE) or an array. *)
Single(v) == [isArray |-> FALSE, v |-> <<v, v>>]
Array(v0, v1) == [isArray |-> TRUE, v |-> <<v0, v1>>]

(* The attributes of a grid of "plus" markers of 4 pixels (minor: points   *)
(* of 1 pixel) on a board of One pixels per unit without axes.             *)
BaseAttr ==
    [face |-> "plus", sizex |-> Px(4), margin |-> 0,
     drawzero0 |-> TRUE, drawzerox |-> TRUE, drawzeroy |-> TRUE,
     includeboundaries |-> TRUE, forcesquare |-> "false",
     px |-> <<1, 1>>, axisDist |-> <<0, 0>>, axisMinorTicks |-> 1,
     minorface |-> "point", minorsizex |-> Px(1),
     minordrawzerox |-> TRUE, minordrawzeroy |-> TRUE]

(* Grids that differ in what they suppress: the face, the drawZero flags,  *)
(* includeBoundaries and the size of the major markers.                    *)
FlagConfigs ==
    {[attr |-> [BaseAttr EXCEPT !.face = f, !.sizex = sz, !.drawzero0 = z0,
                                !.drawzerox = zx, !.drawzeroy = zy,
                                !.includeboundaries = ib,
                                !.minordrawzerox = mz, !.minordrawzeroy = mz],
      majorstep |-> Single(Num(2 * One)),
      minorelements |-> Single(Num(n))] :
        f \in {"plus", "line"}, sz \in {Px(2), Px(8)}, z0 \in BOOLEAN,
        zx \in BOOLEAN, zy \in BOOLEAN, ib \in BOOLEAN, mz \in BOOLEAN,
        n \in {1, 3}}

(* Grids that differ in how the steps are given. *)
StepConfigs ==
    {[attr |-> [BaseAttr EXCEPT !.forcesquare = fs, !.px = px, !.axisDist = ad],
      majorstep |-> ms,
      minorelements |-> me] :
        fs \in {"false", "min", "max", "true"}, px \in {<<1, 1>>, <<1, 2>>},
        ad \in {<<0, 0>>, <<2 * One, 2 * One>>},
        ms \in {Single(Auto), Array(Auto, Num(2 * One)), Single(Pct(50)),
                Array(Pct(50), Pct(50)), Array(Num(2 * One), Num(2 * One))},
        me \in {Single(Num(1)), Array(Auto, Num(1)), Array(Num(0), Num(0))}}

(* The grid of majorStep [1, 1] with and without a marker at the origin. *)
UnitStepConfigs ==
    {[attr |-> [BaseAttr EXCEPT !.drawzero0 = z0, !.includeboundaries = ib],
      majorstep |-> Array(Num(One), Num(One)),
      minorelements |-> Single(Num(0))] : z0 \in BOOLEAN, ib \in BOOLEAN}

(* Grids of every face, major and minor. *)
FaceConfigs ==
    {[attr |-> [BaseAttr EXCEPT !.face = f, !.minorface = f],
      majorstep |-> Single(Num(2 * One)),
      minorelements |-> Single(Num(1))] : f \in Faces}

GridConfigs == FlagConfigs \cup StepConfigs \cup FaceConfigs

(* Grids whose steps are 0, negative, positive, infinite or NaN, and whose  *)
(* minorElements is -1, 0 or 1.                                            *)
DegenerateConfigs ==
    {[attr |-> BaseAttr,
      majorstep |-> Array(Num(sx), Num(sy)),
      minorelements |-> Single(Num(n))] :
        sx \in {0, -2 * One, 2 * One, Infinity, NotANumber},
        sy \in {0, -2 * One, 2 * One, Infinity, NotANumber},
        n \in {-1, 0, 1}}

(* Grids of one row of markers, on the x-axis, of which at most the one at *)
(* the origin is drawn.                                                    *)
CapConfigs ==
    {[attr |-> [BaseAttr EXCEPT !.drawzero0 = z0, !.drawzerox = FALSE,
                                !.minordrawzerox = FALSE],
      majorstep |-> Single(Num(st)),
      minorelements |-> Single(Num(n))] :
        z0 \in BOOLEAN, st \in {One, 2 * One}, n \in {0, 1}}

(* Boxes one unit high around the x-axis: 5002 units wide ending right of  *)
(* the origin, 5002 units wide starting left of it, 2 units wide and 5000  *)
(* units to the right, and 5 units wide around the origin.                 *)
WideBoxes ==
    {<<-(maxLines + 1) * One, One \div 2, One, -(One \div 2)>>,
     <<-One, One \div 2, (maxLines + 1) * One, -(One \div 2)>>,
     <<(maxLines - 1) * One, One \div 2, (maxLines + 1) * One, -(One \div 2)>>,
     <<-20, One \div 2, 20, -(One \div 2)>>}

(* The bounding boxes the board takes, and the box [-5, 5, 5, -5]. *)
GridBoxes ==
    {<<-20, 20, 20, -20>>, <<-12, 20, 28, -4>>}

UnitStepBox == <<-5 * One, 5 * One, 5 * One, -5 * One>>

(* The clipped lengths of an axis, L > 0: a quarter of a unit and whole    *)
(* units; and the ticksDistance attribute.                                 *)
AxisLengths == {DistOne \div 4} \cup {n * DistOne : n \in 1..MaxAxisLen}
TicksDistances == {<<>>, <<2 * DistOne>>}

(* The parents arrays of up to MaxParents parents. *)
ParentLists ==
    UNION {[1..n -> ParentKinds] : n \in 0..MaxParents}

Viewports ==
    {IdentityBoard,
     [ox |-> 1, oy |-> 3, kxN |-> 2, kxD |-> 1, kyN |-> 1, kyD |-> 1],
     [ox |-> 1, oy |-> 3, kxN |-> 1, kxD |-> 2, kyN |-> 2, kyD |-> 1]}

(***************************************************************************)
(* Init: the state after the constructor.  JXG.Line sets ticks = [],       *)
(* defaultTicks = null, visProp.visible = true and ends with this.update() *)
(* which, the element being dirty, computes stdform.  JXG.Text sets        *)
(* plaintext by updateText(), plaintextOld = null, needsSizeUpdate = false *)
(* and size = [1, 1].                                                      *)
(***************************************************************************)
InitWith(K, B, P1, P2) ==
    /\ kind = K
    /\ board = B
    /\ point1 = P1
    /\ point2 = P2
    /\ needsUpdate = TRUE
    /\ visible = TRUE
    /\ isReal = TRUE
    /\ traced = FALSE
    /\ numTraces = 0
    /\ stdform = updateStdform(P1, P2, B)
    /\ ticks = <<>>
    /\ defaultTicks = 0
    /\ tickId = [t \in AllTickObjs |-> 0]
    /\ slope = NoSlope
    /\ tNeedsUpdate = TRUE
    /\ tFrozen = FALSE
    /\ tDisplay \in (IF K = "text" THEN {"html", "internal"} ELSE {"html"})
    /\ tContent \in (IF K = "text" THEN Contents ELSE {"a"})
    /\ tAnchor = 0
    /\ tCoords = 0
    /\ plaintext = tContent
    /\ plaintextOld = <<>>
    /\ needsSizeUpdate = FALSE
    /\ tSize = <<"init", 1>>
    /\ rcalls = <<>>
    /\ tcalcs = <<>>
    /\ lastOp = "init"
    /\ lastVis = "none"
    /\ recomputes = 0

(* No hit test was made yet; the line is straight on both sides. *)
InitHitVars(rad, x, y) ==
    /\ straightFirst = TRUE
    /\ straightLast = TRUE
    /\ r = rad
    /\ hitX = x
    /\ hitY = y
    /\ has = FALSE

(* No factory was called; ps is the parents array at hand. *)
NoFactoryCall(ps) ==
    /\ parents = ps
    /\ result = "none"
    /\ created = 0
    /\ axis = NoAxis

(* createGrid has returned: no updateDataArray has run. *)
InitGridVars(cfg, bb) ==
    /\ bbox = bb
    /\ gridAttr = cfg.attr
    /\ majorstep = cfg.majorstep
    /\ minorelements = cfg.minorelements
    /\ majorStep = Undefined
    /\ majorRadiusX = Undefined
    /\ majorRadiusY = Undefined
    /\ majorGrid = [dataX |-> <<>>, dataY |-> <<>>]
    /\ minorGrid = [dataX |-> <<>>, dataY |-> <<>>]
    /\ emitted = [major |-> <<>>, minor |-> <<>>]
    /\ scanned = <<0, 0>>

NoGrid ==
    InitGridVars([attr |-> BaseAttr, majorstep |-> Single(Auto),
                  minorelements |-> Single(Num(0))], UnitStepBox)

Init ==
    /\ NoGrid
    /\ \E K \in {"line", "text"} :
           InitWith(K, IdentityBoard, UsrPoint(Fin(0), Fin(0)), UsrPoint(Fin(1), Fin(2)))
    /\ InitHitVars(1, 0, 0)
    /\ NoFactoryCall(<<>>)

InitRender ==
    /\ NoGrid
    /\ InitWith("line", IdentityBoard, UsrPoint(Fin(0), Fin(0)), UsrPoint(Fin(1), Fin(0)))
    /\ InitHitVars(1, 0, 0)
    /\ NoFactoryCall(<<>>)

InitGeom ==
    /\ NoGrid
    /\ \E B \in Viewports : \E P1 \in GeomPoints : \E P2 \in GeomPoints :
           /\ OnLattice(P1, B)
           /\ OnLattice(P2, B)
           /\ InitWith("line", B, P1, P2)
    /\ InitHitVars(1, 0, 0)
    /\ NoFactoryCall(<<>>)

InitGrid ==
    /\ InitWith("grid", IdentityBoard, UsrPoint(Fin(0), Fin(0)), UsrPoint(Fin(1), Fin(2)))
    /\ InitHitVars(1, 0, 0)
    /\ NoFactoryCall(<<>>)
    /\ \/ \E cfg \in GridConfigs : \E bb \in GridBoxes : InitGridVars(cfg, bb)
       \/ \E cfg \in UnitStepConfigs : InitGridVars(cfg, UnitStepBox)

InitGridCap ==
    /\ InitWith("grid", IdentityBoard, UsrPoint(Fin(0), Fin(0)), UsrPoint(Fin(1), Fin(2)))
    /\ InitHitVars(1, 0, 0)
    /\ NoFactoryCall(<<>>)
    /\ \E cfg \in CapConfigs : \E bb \in WideBoxes : InitGridVars(cfg, bb)

(* createLine has returned a free line; a line of zero normal,             *)
(* (c1, c2) = (0, 0), is not created here.                                 *)
InitFree ==
    /\ NoGrid
    /\ \E c \in Coefs :
           /\ <<c[2], c[3]>> # <<0, 0>>
           /\ InitWith("line", IdentityBoard, freeLinePoint1(c), freeLinePoint2(c))
           /\ parents = c
    /\ result = "element"
    /\ created = 3
    /\ axis = NoAxis
    /\ InitHitVars(1, 0, 0)

InitGridSteps ==
    /\ InitWith("grid", IdentityBoard, UsrPoint(Fin(0), Fin(0)), UsrPoint(Fin(1), Fin(2)))
    /\ InitHitVars(1, 0, 0)
    /\ NoFactoryCall(<<>>)
    /\ \E cfg \in DegenerateConfigs : \E bb \in GridBoxes : InitGridVars(cfg, bb)

(* A line just constructed, whose ticks are looked at. *)
InitTicks ==
    /\ NoGrid
    /\ InitWith("line", IdentityBoard, UsrPoint(Fin(0), Fin(0)), UsrPoint(Fin(1), Fin(2)))
    /\ InitHitVars(1, 0, 0)
    /\ NoFactoryCall(<<>>)

InitFactory ==
    /\ NoGrid
    /\ InitWith("line", IdentityBoard, UsrPoint(Fin(0), Fin(0)), UsrPoint(Fin(1), Fin(2)))
    /\ InitHitVars(1, 0, 0)
    /\ \E ps \in ParentLists : NoFactoryCall(ps)

InitHit ==
    /\ NoGrid
    /\ \E B \in HitViewports : \E P1 \in HitAnchors : \E P2 \in HitPoints :
           InitWith("line", B, P1, P2)
    /\ \E rad \in 1..MaxHitR : \E x \in HitPixels : \E y \in HitPixels :
           InitHitVars(rad, x, y)
    /\ NoFactoryCall(<<>>)

(***************************************************************************)
(* Operations of the environment on a line: a defining point is moved      *)
(* (Coords.setCoordinates), the element is marked dirty (prepareUpdate),   *)
(* properties are set.                                                     *)
(***************************************************************************)
(* The record of an operation: its name and the calls it made. *)
Log(op, calls, tc) ==
    /\ lastOp' = op
    /\ rcalls' = calls
    /\ tcalcs' = tc
    /\ lastVis' = LET vis == SelectSeq(calls, LAMBDA c : c \in {"show", "hide"})
                  IN  IF vis = <<>> THEN lastVis ELSE vis[Len(vis)]

Env(op) == Log(op, <<>>, <<>>)

MovePointIn(S) ==
    /\ kind = "line"
    /\ \E p \in S :
        /\ OnLattice(p, board)
        /\ \/ p # point1 /\ point1' = p /\ point2' = point2
           \/ p # point2 /\ point2' = p /\ point1' = point1
    /\ Env("setCoordinates")
    /\ UNCHANGED <<factoryVars, kind, board, gridVars, hitVars, lineVars, textVars, recomputes>>

MovePoint == MovePointIn(LifePoints)

MoveRenderPoint == MovePointIn(RenderPoints)

prepareUpdate ==
    /\ kind = "line"
    /\ needsUpdate' = TRUE
    /\ Env("prepareUpdate")
    /\ UNCHANGED <<factoryVars, kind, board, gridVars, hitVars, pointVars, visible, isReal, traced, numTraces,
                   stdform, ticks, defaultTicks, tickId, slope, textVars, recomputes>>

setVisible ==
    /\ kind = "line"
    /\ visible' = ~visible
    /\ Env("setProperty")
    /\ UNCHANGED <<factoryVars, kind, board, gridVars, hitVars, pointVars, needsUpdate, isReal, traced, numTraces,
                   stdform, ticks, defaultTicks, tickId, slope, textVars, recomputes>>

setTraced ==
    /\ kind = "line"
    /\ traced' = ~traced
    /\ Env("setProperty")
    /\ UNCHANGED <<factoryVars, kind, board, gridVars, hitVars, pointVars, needsUpdate, isReal, visible, numTraces,
                   stdform, ticks, defaultTicks, tickId, slope, textVars, recomputes>>

(***************************************************************************)
(* Line.update                                                             *)
(***************************************************************************)
Line_update ==
    /\ kind = "line"
    /\ traced => numTraces < MaxTraces
    /\ LET e == update_effect(needsUpdate, stdform, point1, point2, board, ticks)
       IN  /\ stdform' = e.stdform
           /\ needsUpdate' = e.needsUpdate
           /\ Log("update", IF traced THEN <<"drawLine">> ELSE <<>>, e.tcalcs)
    /\ recomputes' = IF needsUpdate /\ recomputes < MaxRecomputes
                     THEN recomputes + 1 ELSE recomputes
    (* lines 337-339: cloneToBackground, outside the needsUpdate guard *)
    /\ numTraces' = IF traced THEN numTraces + 1 ELSE numTraces
    /\ UNCHANGED <<factoryVars, kind, board, gridVars, hitVars, pointVars, visible, isReal, traced, ticks,
                   defaultTicks, tickId, slope, textVars>>

(***************************************************************************)
(* Line.updateRenderer                                                     *)
(***************************************************************************)
Line_updateRenderer ==
    /\ kind = "line"
    /\ IF rendererGuard(needsUpdate, visible)
       THEN LET real == isRealOf(point1, point2)
            IN  /\ isReal' = real
                /\ Log("updateRenderer", renderCalls(isReal, real), <<>>)
                /\ needsUpdate' = FALSE
                /\ recomputes' = 0
       ELSE /\ Log("updateRenderer", <<>>, <<>>)
            /\ UNCHANGED <<isReal, needsUpdate, recomputes>>
    /\ UNCHANGED <<factoryVars, kind, board, gridVars, hitVars, pointVars, visible, traced, numTraces, stdform,
                   ticks, defaultTicks, tickId, slope, textVars>>

(***************************************************************************)
(* Line.getSlope                                                           *)
(***************************************************************************)
Line_getSlope ==
    /\ kind = "line"
    /\ slope' = getSlope(point1, point2, board)
    /\ Env("getSlope")
    /\ UNCHANGED <<factoryVars, kind, board, gridVars, hitVars, pointVars, needsUpdate, visible, isReal, traced,
                   numTraces, stdform, ticks, defaultTicks, tickId, textVars,
                   recomputes>>

(***************************************************************************)
(* Line.setStraight and Line.hasPoint                                      *)
(***************************************************************************)
setStraight ==
    /\ kind = "line"
    /\ \E sF \in BOOLEAN : \E sL \in BOOLEAN :
        /\ <<sF, sL>> # <<straightFirst, straightLast>>
        /\ straightFirst' = sF
        /\ straightLast' = sL
    /\ Log("setStraight", <<"updateLine">>, <<>>)
    /\ UNCHANGED <<factoryVars, kind, board, gridVars, pointVars, lineVars, textVars,
                   recomputes, r, hitX, hitY, has>>

Line_hasPoint ==
    /\ kind = "line"
    /\ has' = hasPoint(point1, point2, board, stdform, straightFirst,
                       straightLast, r, hitX, hitY)
    /\ Env("hasPoint")
    /\ UNCHANGED <<factoryVars, kind, board, gridVars, pointVars, lineVars, textVars,
                   recomputes, straightFirst, straightLast, r, hitX, hitY>>

(***************************************************************************)
(* The grid: the board's bounding box changes (zooming, moving the origin) *)
(* and the two curves recompute their data.                                *)
(***************************************************************************)
(* An updateDataArray whose loops do not end has not returned. *)
Hung ==
    lastOp \in {"majorGrid.updateDataArray:hangs", "minorGrid.updateDataArray:hangs"}

setBoundingBoxIn(S) ==
    /\ kind = "grid"
    /\ ~Hung
    /\ \E bb \in S : bb # bbox /\ bbox' = bb
    /\ Env("setBoundingBox")
    /\ UNCHANGED <<factoryVars, kind, board, hitVars, pointVars, lineVars, textVars, recomputes,
                   gridAttr, majorstep, minorelements, majorStep, majorRadiusX,
                   majorRadiusY, majorGrid, minorGrid, emitted, scanned>>

setBoundingBox == setBoundingBoxIn(GridBoxes)

setWideBoundingBox == setBoundingBoxIn(WideBoxes)

majorGrid_updateDataArray ==
    /\ kind = "grid"
    /\ ~Hung
    /\ \E u \in {majorUpdate(majorstep, gridAttr, bbox)} :
           /\ majorStep' = u.majorStep
           /\ majorRadiusX' = u.majorRadiusX
           /\ majorRadiusY' = u.majorRadiusY
           /\ majorstep' = majorstepAfter(majorstep, u.majorStep)
           /\ majorGrid' = u.data
           /\ emitted' = [emitted EXCEPT !.major = u.centers]
           /\ scanned' = u.scanned
           /\ Env(IF u.hangs THEN "majorGrid.updateDataArray:hangs"
                  ELSE "majorGrid.updateDataArray")
    /\ UNCHANGED <<factoryVars, kind, board, hitVars, pointVars, lineVars, textVars, recomputes,
                   bbox, gridAttr, minorelements, minorGrid>>

minorGrid_updateDataArray ==
    /\ kind = "grid"
    /\ ~Hung
    /\ IF majorStep = Undefined
       THEN (* line 656: majorStep[0] of undefined throws, after dataX and *)
            (* dataY were emptied and minorElements[0] was assigned        *)
            /\ minorGrid' = [dataX |-> <<>>, dataY |-> <<>>]
            /\ minorelements' =
                 minorelementsAfter(minorelements,
                     <<resolveElements(minorelements.v[1], gridAttr.axisDist[1],
                                       gridAttr.axisMinorTicks), 0>>, 1)
            /\ emitted' = [emitted EXCEPT !.minor = <<>>]
            /\ scanned' = <<0, 0>>
            /\ Env("minorGrid.updateDataArray:TypeError")
       ELSE \E u \in {minorUpdate(minorelements, gridAttr, bbox, majorStep,
                                    majorRadiusX, majorRadiusY)} :
                /\ minorGrid' = u.data
                /\ minorelements' = minorelementsAfter(minorelements, u.elements, 2)
                /\ emitted' = [emitted EXCEPT !.minor = u.centers]
                /\ scanned' = u.scanned
                /\ Env(IF u.hangs THEN "minorGrid.updateDataArray:hangs"
                       ELSE "minorGrid.updateDataArray")
    /\ UNCHANGED <<factoryVars, kind, board, hitVars, pointVars, lineVars, textVars, recomputes,
                   bbox, gridAttr, majorstep, majorStep, majorRadiusX,
                   majorRadiusY, majorGrid>>

(***************************************************************************)
(* A factory is called with the parents array at hand.                     *)
(***************************************************************************)
Call(op, outcome) ==
    /\ result' = outcome.result
    /\ created' = outcome.created
    /\ Env(op)
    /\ UNCHANGED <<parents, axis, kind, board, gridVars, hitVars, pointVars, lineVars,
                   textVars, recomputes>>

JXG_createLine == Call("createLine", createLine(parents))
JXG_createSegment == Call("createSegment", createSegment(parents))
JXG_createArrow == Call("createArrow", createArrow(parents))
JXG_createAxis ==
    /\ result' = createAxis(parents).result
    /\ created' = createAxis(parents).created
    /\ IF createAxis(parents) = Threw
       THEN axis' = axis
       ELSE \E td \in TicksDistances : \E L \in AxisLengths :
                axis' = defaultTicksDistance(td, L)
    /\ Env("createAxis")
    /\ UNCHANGED <<parents, kind, board, gridVars, hitVars, pointVars, lineVars,
                   textVars, recomputes>>
JXG_createTangent == Call("createTangent", createTangent(parents))
JXG_createGrid == Call("createGrid", createGrid(parents))

(***************************************************************************)
(* The parents of a free line are functions: their values change and the   *)
(* two points, whose coordinates are functions of them, follow.            *)
(***************************************************************************)
setCoefficients ==
    /\ kind = "line"
    /\ \E c \in Coefs :
        /\ c # parents
        /\ parents' = c
        /\ point1' = freeLinePoint1(c)
        /\ point2' = freeLinePoint2(c)
    /\ Env("setCoefficients")
    /\ UNCHANGED <<result, created, axis, kind, board, gridVars, hitVars, lineVars,
                   textVars, recomputes>>

(***************************************************************************)
(* Line.addTicks, Line.removeAllTicks, Line.removeTicks                    *)
(***************************************************************************)
addTicksOf(S, maxLen) ==
    /\ kind = "line"
    /\ Len(ticks) < maxLen
    /\ \E t \in S :
        /\ tickId' = IF tickId[t] = 0
                     THEN [tickId EXCEPT ![t] = Len(ticks) + 1]
                     ELSE tickId
        /\ ticks' = Append(ticks, t)
    /\ Log("addTicks", <<"drawTicks", "ticks.updateRenderer">>, <<>>)
    /\ UNCHANGED <<factoryVars, kind, board, gridVars, hitVars, pointVars, needsUpdate, visible, isReal, traced,
                   numTraces, stdform, defaultTicks, slope, textVars, recomputes>>

addTicks == addTicksOf(TickObjs, MaxTicksLen)

addAnyTicks == addTicksOf(AllTickObjs, MaxAttached)

(* The index of the last entry that is undefined, 0 when there is none. *)
LastHole(tk) ==
    LET holes == {i \in 1..Len(tk) : tk[i] = 0}
    IN  IF holes = {} THEN 0 ELSE CHOOSE i \in holes : \A j \in holes : j <= i

removeAllTicks ==
    /\ kind = "line"
    /\ ticks # <<>>
    /\ LET h == LastHole(ticks)
       IN  IF h = 0
           THEN /\ Log("removeAllTicks", [i \in 1..Len(ticks) |-> "remove"], <<>>)
                /\ ticks' = <<>>
           ELSE (* this.ticks[t-1].rendNode of an undefined entry throws *)
                /\ Log("removeAllTicks:TypeError",
                       [i \in 1..(Len(ticks) - h) |-> "remove"], <<>>)
                /\ ticks' = ticks
    /\ UNCHANGED <<factoryVars, kind, board, gridVars, hitVars, pointVars, needsUpdate, visible, isReal, traced,
                   numTraces, stdform, defaultTicks, tickId, slope, textVars,
                   recomputes>>

removeTicksOf(S) ==
    /\ kind = "line"
    /\ \E tick \in S :
        /\ \E i \in 1..Len(ticks) : ticks[i] = tick
        /\ defaultTicks' = IF defaultTicks # 0 /\ defaultTicks = tick
                           THEN 0 ELSE defaultTicks
        /\ ticks' = [i \in 1..Len(ticks) |-> IF ticks[i] = tick THEN 0 ELSE ticks[i]]
        /\ Log("removeTicks",
               [i \in 1..Len(SelectSeq(ticks, LAMBDA t : t = tick)) |-> "remove"],
               <<>>)
    /\ UNCHANGED <<factoryVars, kind, board, gridVars, hitVars, pointVars, needsUpdate, visible, isReal, traced,
                   numTraces, stdform, tickId, slope, textVars, recomputes>>

removeTicks == removeTicksOf(TickObjs)

removeAnyTicks == removeTicksOf(AllTickObjs)

(* createAxis, lines 844-845, right after the line's construction: the     *)
(* ticks element made by board.createElement('ticks', [line, dist]) adds   *)
(* itself to the line with addTicks and becomes line.defaultTicks.         *)
createAxis_defaultTicks ==
    /\ kind = "line"
    /\ lastOp = "init"
    /\ \E t \in AllTickObjs :
        /\ tickId' = [tickId EXCEPT ![t] = Len(ticks) + 1]
        /\ ticks' = Append(ticks, t)
        /\ defaultTicks' = t
    /\ Log("createAxis", <<"drawTicks", "ticks.updateRenderer">>, <<>>)
    /\ UNCHANGED <<factoryVars, kind, board, gridVars, hitVars, pointVars, needsUpdate, visible, isReal, traced,
                   numTraces, stdform, slope, textVars, recomputes>>

(***************************************************************************)
(* Text: the environment changes the content function's value, the anchor  *)
(* position, the frozen property, or marks the text dirty.                 *)
(***************************************************************************)
Text_setContent ==
    /\ kind = "text"
    /\ \E c \in Contents : c # tContent /\ tContent' = c
    /\ Env("contentChanged")
    /\ UNCHANGED <<factoryVars, kind, board, gridVars, hitVars, pointVars, lineVars, tNeedsUpdate, tFrozen,
                   tDisplay, tAnchor, tCoords, plaintext, plaintextOld,
                   needsSizeUpdate, tSize, recomputes>>

Text_moveAnchor ==
    /\ kind = "text"
    /\ tAnchor' = 1 - tAnchor
    /\ Env("setCoordinates")
    /\ UNCHANGED <<factoryVars, kind, board, gridVars, hitVars, pointVars, lineVars, tNeedsUpdate, tFrozen,
                   tDisplay, tContent, tCoords, plaintext, plaintextOld,
                   needsSizeUpdate, tSize, recomputes>>

Text_setFrozen ==
    /\ kind = "text"
    /\ tFrozen' = ~tFrozen
    /\ Env("setProperty")
    /\ UNCHANGED <<factoryVars, kind, board, gridVars, hitVars, pointVars, lineVars, tNeedsUpdate, tAnchor,
                   tDisplay, tContent, tCoords, plaintext, plaintextOld,
                   needsSizeUpdate, tSize, recomputes>>

Text_prepareUpdate ==
    /\ kind = "text"
    /\ tNeedsUpdate' = TRUE
    /\ Env("prepareUpdate")
    /\ UNCHANGED <<factoryVars, kind, board, gridVars, hitVars, pointVars, lineVars, tFrozen, tAnchor,
                   tDisplay, tContent, tCoords, plaintext, plaintextOld,
                   needsSizeUpdate, tSize, recomputes>>

(***************************************************************************)
(* Text.update and Text.updateRenderer                                     *)
(***************************************************************************)
Text_update ==
    /\ kind = "text"
    /\ IF ~tNeedsUpdate
       THEN UNCHANGED <<tCoords, plaintext, plaintextOld, needsSizeUpdate, tSize,
                        recomputes>>
       ELSE LET txt == IF tDisplay = "internal" THEN utf8_decode(tContent)
                       ELSE tContent
                resize == plaintextOld # <<txt>>
            IN  /\ tCoords' = IF tFrozen THEN tCoords ELSE tAnchor
                /\ plaintext' = txt
                /\ needsSizeUpdate' = resize
                /\ plaintextOld' = IF resize THEN <<txt>> ELSE plaintextOld
                /\ tSize' = IF resize THEN crudeSizeEstimate(txt) ELSE tSize
                /\ recomputes' = IF recomputes < MaxRecomputes
                                 THEN recomputes + 1 ELSE recomputes
    /\ Env("update")
    /\ UNCHANGED <<factoryVars, kind, board, gridVars, hitVars, pointVars, lineVars, tNeedsUpdate, tFrozen,
                   tDisplay, tContent, tAnchor>>

Text_updateRenderer ==
    /\ kind = "text"
    /\ IF tNeedsUpdate
       THEN /\ Log("updateRenderer", <<"updateText">>, <<>>)
            /\ tNeedsUpdate' = FALSE
            /\ recomputes' = 0
       ELSE /\ Log("updateRenderer", <<>>, <<>>)
            /\ UNCHANGED <<tNeedsUpdate, recomputes>>
    /\ UNCHANGED <<factoryVars, kind, board, gridVars, hitVars, pointVars, lineVars, tFrozen, tDisplay, tContent,
                   tAnchor, tCoords, plaintext, plaintextOld, needsSizeUpdate,
                   tSize>>

(***************************************************************************)
(* Specifications.                                                         *)
(*   Spec        the update protocol of one element (a line or a text)     *)
(*   SpecRender  the rendering pass of a line whose points take finite,    *)
(*               infinite and NaN coordinates                              *)
(*   SpecGeom    stdform and slope of a line through any two lattice       *)
(*               points under any of the viewports                        *)
(*   SpecHit     hit tests of lines, rays and segments through any two     *)
(*               points on whole units                                     *)
(*   SpecGrid    the data of a major and a minor grid under a changing     *)
(*               bounding box                                              *)
(***************************************************************************)
Next ==
    \/ MovePoint
    \/ prepareUpdate
    \/ setVisible
    \/ setTraced
    \/ Line_update
    \/ Line_updateRenderer
    \/ addTicks
    \/ removeTicks
    \/ removeAllTicks
    \/ Text_setContent
    \/ Text_moveAnchor
    \/ Text_setFrozen
    \/ Text_prepareUpdate
    \/ Text_update
    \/ Text_updateRenderer

Spec == Init /\ [][Next]_vars

NextRender ==
    \/ MoveRenderPoint
    \/ prepareUpdate
    \/ setVisible
    \/ Line_updateRenderer

SpecRender == InitRender /\ [][NextRender]_vars

NextGeom ==
    \/ Line_update
    \/ Line_getSlope

SpecGeom == InitGeom /\ [][NextGeom]_vars

NextHit ==
    \/ setStraight
    \/ Line_hasPoint

SpecHit == InitHit /\ [][NextHit]_vars

NextGrid ==
    \/ setBoundingBox
    \/ majorGrid_updateDataArray
    \/ minorGrid_updateDataArray

SpecGrid == InitGrid /\ [][NextGrid]_vars

NextGridCap ==
    \/ setWideBoundingBox
    \/ majorGrid_updateDataArray
    \/ minorGrid_updateDataArray

SpecGridCap == InitGridCap /\ [][NextGridCap]_vars

NextGridSteps ==
    \/ setBoundingBox
    \/ majorGrid_updateDataArray
    \/ minorGrid_updateDataArray

SpecGridSteps == InitGridSteps /\ [][NextGridSteps]_vars

NextFactory ==
    \/ JXG_createLine
    \/ JXG_createSegment
    \/ JXG_createArrow
    \/ JXG_createAxis
    \/ JXG_createTangent
    \/ JXG_createGrid

SpecFactory == InitFactory /\ [][NextFactory]_vars

NextFree ==
    \/ setCoefficients
    \/ Line_update

SpecFree == InitFree /\ [][NextFree]_vars

NextTicks ==
    \/ createAxis_defaultTicks
    \/ addAnyTicks
    \/ removeAnyTicks
    \/ removeAllTicks
    \/ Line_update

SpecTicks == InitTicks /\ [][NextTicks]_vars

(***************************************************************************)
(* Properties.                                                             *)
(***************************************************************************)
Calls(name) == \E i \in 1..Len(rcalls) : rcalls[i] = name
CallsNext(name) == \E i \in 1..Len(rcalls') : rcalls'[i] = name

Coordinates(P1, P2) == {P1[2], P1[3], P2[2], P2[3]}
HasNaN(P1, P2) == \E c \in Coordinates(P1, P2) : IsNaN(c)
AllFinite(P1, P2) == \A c \in Coordinates(P1, P2) : IsFinite(c)

C2_CleanUpdateIsNoOp ==
    [][((Line_update /\ ~needsUpdate) \/ (Text_update /\ ~tNeedsUpdate))
         => (/\ UNCHANGED <<pointVars, lineVars, textVars>>
             /\ rcalls' = <<>>
             /\ tcalcs' = <<>>)]_vars

(* C2, amended: update() called with needsUpdate false leaves stdform, the *)
(* coordinates and every other field unchanged and recalculates no ticks;  *)
(* the one exception is a line whose traced flag is set, which still       *)
(* clones itself to the background (numTraces grows by one and             *)
(* renderer.drawLine is called).  Text.update is then a no-op.             *)
C2_CleanUpdateOnlyTraces ==
    [][/\ (Line_update /\ ~needsUpdate)
            => (/\ UNCHANGED <<pointVars, needsUpdate, visible, isReal, traced,
                               stdform, ticks, defaultTicks, tickId, slope,
                               textVars>>
                /\ tcalcs' = <<>>
                /\ numTraces' = IF traced THEN numTraces + 1 ELSE numTraces
                /\ rcalls' = IF traced THEN <<"drawLine">> ELSE <<>>)
       /\ (Text_update /\ ~tNeedsUpdate)
            => (/\ UNCHANGED <<pointVars, lineVars, textVars>>
                /\ rcalls' = <<>>
                /\ tcalcs' = <<>>)]_vars

C2_Witness ==
    /\ kind = "line"
    /\ lastOp = "update"
    /\ ~needsUpdate
    /\ traced
    /\ rcalls = <<"drawLine">>
    /\ numTraces > 0
    /\ stdform # updateStdform(point1, point2, board)

(* C3: update() never changes needsUpdate; a step that clears the flag is  *)
(* an updateRenderer step, so update() can recompute several times before  *)
(* one updateRenderer call.                                                *)
C3_UpdateKeepsFlag ==
    [][/\ Line_update => needsUpdate' = needsUpdate
       /\ Text_update => tNeedsUpdate' = tNeedsUpdate
       /\ (needsUpdate /\ ~needsUpdate') => Line_updateRenderer
       /\ (tNeedsUpdate /\ ~tNeedsUpdate') => Text_updateRenderer]_vars

C3_Witness ==
    /\ lastOp = "update"
    /\ recomputes >= 2
    /\ (needsUpdate \/ kind = "text")
    /\ (tNeedsUpdate \/ kind = "line")

(* C4: in every Line.updateRenderer call, renderer.show is called exactly  *)
(* when isReal changes from false to true and renderer.hide exactly when   *)
(* it changes from true to false; show is never called twice without a     *)
(* hide between.                                                           *)
C4_ShowHideOnTransition ==
    [][Line_updateRenderer
         => (/\ CallsNext("show") <=> (~isReal /\ isReal')
             /\ CallsNext("hide") <=> (isReal /\ ~isReal')
             /\ CallsNext("show") => lastVis # "show"
             /\ CallsNext("hide") => lastVis # "hide")]_vars

C4_Witness ==
    /\ lastOp = "updateRenderer"
    /\ rcalls = <<"show", "updateLine">>
    /\ isReal

(* C5, as stated: with a NaN endpoint coordinate, updateRenderer sets      *)
(* isReal to false and calls neither renderer.show nor updateLine.         *)
C5_NaNMakesUnreal ==
    (kind = "line" /\ lastOp = "updateRenderer" /\ HasNaN(point1, point2))
        => (~isReal /\ ~Calls("show") /\ ~Calls("updateLine"))

(* C5, amended: with a NaN endpoint coordinate, an updateRenderer call on  *)
(* a dirty and visible line sets isReal to false (a call on a clean or     *)
(* invisible line leaves isReal as it was), and no updateRenderer call     *)
(* made while a coordinate is NaN calls renderer.show or updateLine.       *)
C5_NaNMakesUnrealWhenRendered ==
    [][(Line_updateRenderer /\ HasNaN(point1, point2))
         => (/\ isReal' = IF needsUpdate /\ visible THEN FALSE ELSE isReal
             /\ ~CallsNext("show")
             /\ ~CallsNext("updateLine"))]_vars

C5_Witness ==
    /\ lastOp = "updateRenderer"
    /\ HasNaN(point1, point2)
    /\ ~isReal
    /\ rcalls = <<"hide">>

TicksFoundFreshStdform ==
    LET fresh == updateStdform(point1, point2, board)
    IN  /\ stdform' = fresh
        /\ Len(tcalcs') = Cardinality({i \in 1..Len(ticks) : ticks[i] # 0})
        /\ \A i \in 1..Len(tcalcs') : tcalcs'[i].sf = fresh

C8_PointsOnStdform ==
    (kind = "line" /\ AllFinite(point1, point2))
        => LET cab == <<stdform.v[1], stdform.v[2], stdform.v[3]>>
           IN  /\ innerProduct(cab, point1) = Fin(0)
               /\ innerProduct(cab, point2) = Fin(0)

C8_Witness ==
    /\ lastOp = "update"
    /\ point1 # point2
    /\ stdform.v[1] # Fin(0)
    /\ stdform.v[2] # Fin(0)
    /\ stdform.v[3] # Fin(0)

(* C9: swapping the two defining points multiplies the stdform by -1       *)
(* (the same after normalization, the norm being unchanged), and the       *)
(* stdform of two distinct points is not the zero vector.                  *)
C9_SwapNegatesStdform ==
    (kind = "line" /\ AllFinite(point1, point2))
        => LET swapped == updateStdform(point2, point1, board)
           IN  /\ \A i \in 1..3 : swapped.v[i] = XNeg(stdform.v[i])
               /\ swapped.n2 = stdform.n2
               /\ point1 # point2
                    => (/\ \E i \in 1..3 : stdform.v[i] # Fin(0)
                        /\ stdform.n2 # Fin(0))

C9_Witness ==
    /\ lastOp = "update"
    /\ point1 # point2
    /\ board # IdentityBoard
    /\ stdform.v[2] # Fin(0)
    /\ updateStdform(point2, point1, board) # stdform

(* The x-spans and y-differences of the two points, in user and in screen  *)
(* coordinates, for points with finite coordinates.                        *)
UsrDx == point2[2][2] - point1[2][2]
UsrDy == point2[3][2] - point1[3][2]
ScrX(P) == board.ox + (P[2][2] * board.kxN) \div board.kxD
ScrY(P) == board.oy - (P[3][2] * board.kyN) \div board.kyD
ScrDx == ScrX(point2) - ScrX(point1)
ScrDy == ScrY(point2) - ScrY(point1)

(* The quotient getSlope returned equals dy/dx. *)
SlopeIs(dy, dx) ==
    /\ ~slope.inf
    /\ slope.den # Fin(0)
    /\ slope.num[2] * dx = slope.den[2] * dy

SlopeInLargerSpan ==
    IF Abs(ScrDx) > Abs(UsrDx) THEN SlopeIs(ScrDy, ScrDx) ELSE SlopeIs(UsrDy, UsrDx)

(* C10, as stated: getSlope returns "INF" iff the two points have equal    *)
(* x-coordinates in user and in screen space, and otherwise dy/dx in the   *)
(* representation with the larger x-span.                                  *)
C10_InfIffEqualX ==
    (lastOp = "getSlope" /\ AllFinite(point1, point2))
        => IF UsrDx = 0 /\ ScrDx = 0 THEN slope = INF ELSE SlopeInLargerSpan

(* C10, amended: for points with finite coordinates, getSlope returns      *)
(* "INF" iff the x-spans in user and in screen space are both smaller than *)
(* JXG.Math.eps (equal x-coordinates being one such case), and otherwise   *)
(* dy/dx in the representation with the larger x-span, the user one when   *)
(* the spans are equal.                                                    *)
C10_InfIffSpansBelowEps ==
    (lastOp = "getSlope" /\ AllFinite(point1, point2))
        => IF Abs(UsrDx) < Eps /\ Abs(ScrDx) < Eps
           THEN slope = INF
           ELSE SlopeInLargerSpan

C10_Witness ==
    /\ lastOp = "getSlope"
    /\ slope = INF
    /\ UsrDx # 0
    /\ ScrDx # 0

(* The pointer, the screen images of the two points, and the vector from   *)
(* point1 to point2 on the screen, in quanta.                              *)
PtrX == hitX * One
PtrY == hitY * One
ScrVx == ScrX(point2) - ScrX(point1)
ScrVy == ScrY(point2) - ScrY(point1)

(* The pointer's offset from point1 along the screen line (times the       *)
(* line's length) and across it (times the line's length).                 *)
Along == (PtrX - ScrX(point1)) * ScrVx + (PtrY - ScrY(point1)) * ScrVy
Across == (PtrX - ScrX(point1)) * ScrVy - (PtrY - ScrY(point1)) * ScrVx
ScrLen2 == ScrVx * ScrVx + ScrVy * ScrVy

(* The pointer lies beyond point1 or beyond point2 along the direction of  *)
(* the line.                                                               *)
BeyondEnd == Along < 0 \/ Along > ScrLen2

(* The pointer is farther than r pixels from the rendered line, the line   *)
(* through the screen images of the two points.                            *)
FartherThanR == ScrLen2 > 0 /\ Across * Across > (r * One) * (r * One) * ScrLen2

FiniteSlope == getSlope(point1, point2, board) # INF

(* C11: a segment (straightFirst = straightLast = false) of finite slope   *)
(* does not have a screen point that lies beyond point1 or beyond point2   *)
(* along the line's direction, also when the point is within the band of   *)
(* tolerance around the infinite line.                                     *)
C11_SegmentRejectsBeyondEnds ==
    (/\ lastOp = "hasPoint"
     /\ ~straightFirst
     /\ ~straightLast
     /\ FiniteSlope
     /\ BeyondEnd) => ~has

C11_Witness ==
    /\ lastOp = "hasPoint"
    /\ ~straightFirst
    /\ ~straightLast
    /\ FiniteSlope
    /\ BeyondEnd
    /\ inBand(getSlope(point1, point2, board), getRise(point1, point2, board),
              r, hitX, hitY)
    /\ ~FartherThanR
    /\ ~has

(* C12, as stated: a line that is not straight on both sides does not have *)
(* a screen point whose distance to the rendered line exceeds r.           *)
C12_NoFarPoint ==
    (/\ lastOp = "hasPoint"
     /\ ~(straightFirst /\ straightLast)
     /\ FartherThanR) => ~has

(* The pointer is the image of a user point on the line through point1 and *)
(* point2: the user point ((x - ox)/kx, (oy - y)/ky) is collinear with     *)
(* them (all terms multiplied by kxN*kyN).                                 *)
PtrOnUserLine ==
    LET k  == board.kxN * board.kyN
        ux == (PtrX - board.ox) * board.kxD * board.kyN
        uy == (board.oy - PtrY) * board.kyD * board.kxN
    IN  (ux - k * point1[2][2]) * UsrDy - (uy - k * point1[3][2]) * UsrDx = 0

(* innerProduct(c, coords.scrCoords) of hasPoint, times kxN*kyN*sqrt(n2). *)
PtrInnerProduct ==
    LET ck == scrStdform(stdform, board)
    IN  ck[1] + ck[2] * PtrX + ck[3] * PtrY

(* C13: for a line straight on both sides, the screen image of a user      *)
(* point on the line gives innerProduct(c, [1, sx, sy]) = 0 and hasPoint   *)
(* returns true for it; the result of hasPoint is the same for every       *)
(* tolerance radius r.                                                     *)
C13_StraightLineHasItsPoints ==
    (/\ lastOp = "hasPoint"
     /\ straightFirst
     /\ straightLast
     /\ point1 # point2)
        => /\ PtrOnUserLine => (PtrInnerProduct = 0 /\ has)
           /\ \A rad \in 1..(MaxHitR + 1) :
                  hasPoint(point1, point2, board, stdform, straightFirst,
                           straightLast, rad, hitX, hitY) = has

C13_Witness ==
    /\ lastOp = "hasPoint"
    /\ straightFirst
    /\ straightLast
    /\ point1 # point2
    /\ board # IdentityBoard
    /\ UsrDx # 0
    /\ UsrDy # 0
    /\ PtrOnUserLine
    /\ <<PtrX, PtrY>> # <<ScrX(point1), ScrY(point1)>>
    /\ <<PtrX, PtrY>> # <<ScrX(point2), ScrY(point2)>>
    /\ has

(***************************************************************************)
(* Grid properties (SpecGrid).                                             *)
(***************************************************************************)
MajorRan == lastOp = "majorGrid.updateDataArray"
MinorRan == lastOp = "minorGrid.updateDataArray"

AtOrigin(c) == Abs(c[1]) < Eps /\ Abs(c[2]) < Eps

(* The major data are the outlines of the emitted centers. *)
MajorDataOfEmitted ==
    majorGrid = dataOf(gridAttr.face, emitted.major, majorRadiusX, majorRadiusY, bbox,
                       <<gridAttr.margin * gridAttr.px[1], gridAttr.margin * gridAttr.px[2]>>)

(* With the face "plus" the outline of a marker starts with its horizontal *)
(* stroke, from (x - radiusX, y) to (x + radiusX, y).                      *)
StrokeAtOrigin(data, radiusX) ==
    \E j \in 1..Len(data.dataX) :
        /\ j % 6 = 1
        /\ data.dataX[j] = Fin(-radiusX)
        /\ data.dataX[j + 1] = Fin(radiusX)
        /\ data.dataY[j] = Fin(0)

(* C14: with drawZero0 = false, after majorGrid.updateDataArray no marker  *)
(* centered at the origin (|x| < eps and |y| < eps) is in the major grid's *)
(* dataX/dataY, for every bounding box and major step.                     *)
C14_NoOriginMarker ==
    (MajorRan /\ ~gridAttr.drawzero0) =>
        /\ MajorDataOfEmitted
        /\ \A i \in 1..Len(emitted.major) : ~AtOrigin(emitted.major[i])
        /\ gridAttr.face = "plus" => ~StrokeAtOrigin(majorGrid, majorRadiusX)

(* majorStep [1, 1] and bounding box [-5, 5, 5, -5]: the origin is one of  *)
(* the 11 x 11 candidates and the only one that is not emitted.            *)
C14_Witness ==
    /\ MajorRan
    /\ ~gridAttr.drawzero0
    /\ gridAttr.includeboundaries
    /\ bbox = UnitStepBox
    /\ majorStep = <<One, One>>
    /\ scanned = <<11, 11>>
    /\ Len(emitted.major) = 120
    /\ \E i \in 1..Len(emitted.major) : emitted.major[i] = <<One, 0>>

(* C20: with includeBoundaries = false every major marker emitted at       *)
(* (x, y) lies strictly inside the bounding box by its radius:             *)
(* left + majorRadiusX < x < right - majorRadiusX and                      *)
(* bottom + majorRadiusY < y < top - majorRadiusY.                         *)
C20_MajorStrictlyInside ==
    (MajorRan /\ ~gridAttr.includeboundaries) =>
        /\ MajorDataOfEmitted
        /\ \A i \in 1..Len(emitted.major) :
               /\ bbox[1] + majorRadiusX < emitted.major[i][1]
               /\ emitted.major[i][1] < bbox[3] - majorRadiusX
               /\ bbox[4] + majorRadiusY < emitted.major[i][2]
               /\ emitted.major[i][2] < bbox[2] - majorRadiusY

(* Columns were scanned whose marker would touch or cross the left edge,   *)
(* and markers inside the box were emitted.                                *)
C20_Witness ==
    /\ MajorRan
    /\ ~gridAttr.includeboundaries
    /\ majorRadiusX > 0
    /\ emitted.major # <<>>
    /\ Len(emitted.major) < scanned[1] * scanned[2]
    /\ \E k \in 0..scanned[1] :
           /\ roundToStep(bbox[1], majorStep[1]) + k * majorStep[1] > bbox[1]
           /\ roundToStep(bbox[1], majorStep[1]) + k * majorStep[1] <= bbox[1] + majorRadiusX

(* The major grid was computed last under the present bounding box. *)
MajorCurrent ==
    /\ majorStep # Undefined
    /\ majorStep = majorUpdate(majorstep, gridAttr, bbox).majorStep
    /\ emitted.major = majorUpdate(majorstep, gridAttr, bbox).centers

(* minorElements, the minor step and the minor radius of the last run. *)
ElementsNow ==
    <<resolveElements(minorelements.v[1], gridAttr.axisDist[1], gridAttr.axisMinorTicks),
      resolveElements(minorelements.v[2], gridAttr.axisDist[2], gridAttr.axisMinorTicks)>>
MinorStepNow ==
    <<majorStep[1] \div (ElementsNow[1] + 1), majorStep[2] \div (ElementsNow[2] + 1)>>
MinorRadiusNow ==
    <<parseNumber(gridAttr.minorsizex, MinorStepNow[1] \div 2, gridAttr.px[1]),
      parseNumber(gridAttr.minorsizex, MinorStepNow[2] \div 2, gridAttr.px[2])>>

IsEmitted(seq, c) == \E i \in 1..Len(seq) : seq[i] = c

(* i = 1: along the x-axis, i = 2: along the y-axis. *)
Shifted(c, i, d) == IF i = 1 THEN <<c[1] + d, c[2]>> ELSE <<c[1], c[2] + d>>

(* The major markers at a and at one major step after a along axis i are   *)
(* both emitted.                                                           *)
AdjacentMajors(a, i) ==
    /\ IsEmitted(emitted.major, a)
    /\ IsEmitted(emitted.major, Shifted(a, i, majorStep[i]))

(* The minor markers emitted strictly between them. *)
MinorsBetween(a, i) ==
    {k \in 1..(majorStep[i] - 1) : IsEmitted(emitted.minor, Shifted(a, i, k))}

(* The extents of a minor marker at c and a major marker at m overlap. *)
ExtentsOverlap(c, m) ==
    /\ Abs(c[1] - m[1]) < majorRadiusX + MinorRadiusNow[1]
    /\ Abs(c[2] - m[2]) < majorRadiusY + MinorRadiusNow[2]

OnMinorLattice(c) ==
    /\ (c[1] - roundToStep(bbox[1], MinorStepNow[1])) % MinorStepNow[1] = 0
    /\ (roundToStep(bbox[2], MinorStepNow[2]) - c[2]) % MinorStepNow[2] = 0

MinorsOnLattice ==
    /\ MinorStepNow[1] * (ElementsNow[1] + 1) = majorStep[1]
    /\ MinorStepNow[2] * (ElementsNow[2] + 1) = majorStep[2]
    /\ \A j \in 1..Len(emitted.minor) : OnMinorLattice(emitted.minor[j])


(* None of the minor markers between two adjacent major markers overlaps a *)
(* major marker.                                                           *)
NoMinorOnMajor ==
    \A k \in 1..Len(emitted.major) : \A i \in 1..2 :
        AdjacentMajors(emitted.major[k], i) =>
            \A d \in MinorsBetween(emitted.major[k], i) :
                \A m \in 1..Len(emitted.major) :
                    ~ExtentsOverlap(Shifted(emitted.major[k], i, d), emitted.major[m])

(* Between the two major markers there is room for every minor marker, and *)
(* none of them is suppressed for another reason: the markers are not      *)
(* lines, the nearest minor marker keeps a gap of eps to the major one,    *)
(* the row or column is not an axis whose minor markers are switched off,  *)
(* and the pair lies inside the bounding box.                              *)
RoomBetween(a, i) ==
    /\ gridAttr.face # "line"
    /\ gridAttr.includeboundaries
    /\ MinorStepNow[i] - MinorRadiusNow[i]
         - (IF i = 1 THEN majorRadiusX ELSE majorRadiusY) >= Eps
    /\ IF i = 1 THEN gridAttr.minordrawzerox \/ Abs(a[2]) >= Eps
                ELSE gridAttr.minordrawzeroy \/ Abs(a[1]) >= Eps
    /\ a[1] >= bbox[1]

(* C15 as stated: for minorElements = n the minor step is majorStep/(n+1), *)
(* exactly n minor markers are emitted strictly between each pair of       *)
(* adjacent major markers along an axis, and none of them overlaps a major *)
(* marker's half-extent.                                                   *)
C15_ExactlyNBetween ==
    (MinorRan /\ MajorCurrent) =>
        /\ MinorsOnLattice
        /\ NoMinorOnMajor
        /\ \A k \in 1..Len(emitted.major) : \A i \in 1..2 :
               AdjacentMajors(emitted.major[k], i) =>
                   Cardinality(MinorsBetween(emitted.major[k], i)) = ElementsNow[i]

(* C15, amended: the minor step is majorStep/(n+1), no emitted minor       *)
(* marker overlaps an emitted major marker's half-extent, and between two  *)
(* adjacent major markers along an axis at most n minor markers are        *)
(* emitted: exactly n where there is room for them, fewer where they would *)
(* overlap a major marker or are otherwise suppressed.                     *)
C15_AtMostNBetween ==
    (MinorRan /\ MajorCurrent) =>
        /\ MinorsOnLattice
        /\ NoMinorOnMajor
        /\ \A k \in 1..Len(emitted.major) : \A i \in 1..2 :
               AdjacentMajors(emitted.major[k], i) =>
                   /\ Cardinality(MinorsBetween(emitted.major[k], i)) <= ElementsNow[i]
                   /\ RoomBetween(emitted.major[k], i) =>
                          Cardinality(MinorsBetween(emitted.major[k], i)) = ElementsNow[i]

(* minorElements = 3: three minor markers between one pair of adjacent     *)
(* major markers, in a grid whose minor markers next to the major ones     *)
(* were candidates.                                                        *)
C15_Witness ==
    /\ MinorRan
    /\ MajorCurrent
    /\ ElementsNow = <<3, 3>>
    /\ \E k \in 1..Len(emitted.major) :
           /\ AdjacentMajors(emitted.major[k], 1)
           /\ RoomBetween(emitted.major[k], 1)
           /\ Cardinality(MinorsBetween(emitted.major[k], 1)) = 3
    /\ Len(emitted.minor) < scanned[1] * scanned[2]

(* Steps of the two updateDataArray methods, and such a step that directly *)
(* follows a run of the same method (nothing changed in between).          *)
MajorStepTaken == lastOp' = "majorGrid.updateDataArray"
MinorStepTaken == lastOp' = "minorGrid.updateDataArray"
MajorAgain == MajorRan /\ MajorStepTaken
MinorAgain == MinorRan /\ MinorStepTaken

(* The second of two calls in a row writes the data the first one wrote. *)
DataIdempotent ==
    /\ MajorAgain => majorGrid' = majorGrid
    /\ MinorAgain => minorGrid' = minorGrid

(* A call leaves the option values majorStep and minorElements alone. *)
ConfigurationKept ==
    (MajorStepTaken \/ MinorStepTaken) =>
        /\ majorstep' = majorstep
        /\ minorelements' = minorelements
        /\ gridAttr' = gridAttr

(* C16: calling updateDataArray (major, and minor) twice in a row with an  *)
(* unchanged bounding box and configuration gives identical dataX and      *)
(* dataY on the second call and leaves the configuration, including the    *)
(* majorStep option value, as it was.                                      *)
C16_IdempotentAndConfigKept ==
    [][DataIdempotent /\ ConfigurationKept]_vars

(* What minorGrid.updateDataArray writes when majorStep and the major      *)
(* radii are those of the present bounding box and configuration.          *)
MinorFromBoxAndConfig ==
    LET M == majorUpdate(majorstep, gridAttr, bbox)
    IN  minorUpdate(minorelements, gridAttr, bbox,
                    M.majorStep, M.majorRadiusX, M.majorRadiusY).data

MinorCalled ==
    lastOp \in {"minorGrid.updateDataArray", "minorGrid.updateDataArray:TypeError"}

(* C18: the dataX/dataY written by minorGrid.updateDataArray are           *)
(* determined by the present bounding box and configuration alone,         *)
(* whether or not, and under whichever bounding box,                       *)
(* majorGrid.updateDataArray was last run.                                 *)
C18_MinorFromBoxAndConfigAlone ==
    MinorCalled => minorGrid = MinorFromBoxAndConfig

(***************************************************************************)
(* The abort criterion (SpecGridCap).                                      *)
(***************************************************************************)
(* The step of the run that was made last. *)
StepOfRun == IF MajorRan THEN majorStep ELSE MinorStepNow
DataOfRun == IF MajorRan THEN majorGrid ELSE minorGrid

(* The number of columns or rows implied by the bounding box and the step  *)
(* (extent divided by step) exceeds maxLines.                              *)
TooManyImplied ==
    \/ bbox[3] - bbox[1] > maxLines * StepOfRun[1]
    \/ bbox[2] - bbox[4] > maxLines * StepOfRun[2]

(* C17: whenever the number of columns or rows implied by the bounding box *)
(* and the step exceeds 5000, updateDataArray emits no marker (dataX and   *)
(* dataY stay empty), and a call never enumerates more than 5000 columns   *)
(* or 5000 rows.                                                           *)
C17_EnumerationCap ==
    (MajorRan \/ MinorRan) =>
        /\ TooManyImplied => DataOfRun = [dataX |-> <<>>, dataY |-> <<>>]
        /\ scanned[1] <= maxLines
        /\ scanned[2] <= maxLines

(***************************************************************************)
(* Factory properties (SpecFactory).                                       *)
(***************************************************************************)
Factories ==
    {"createLine", "createSegment", "createArrow", "createAxis", "createTangent",
     "createGrid"}

FirstTwo(S) == Len(parents) >= 2 /\ parents[1] \in S /\ parents[2] \in S

(* The shapes of parents a factory is documented to accept: two points,    *)
(* three coordinates or two coordinate arrays for a line or segment; two   *)
(* points for an arrow; two arrays or points for an axis; a glider on a    *)
(* line, curve or circle for a tangent; at most two axes for a grid.       *)
MatchesShape(op) ==
    CASE op \in {"createLine", "createSegment"} ->
           \/ FirstTwo({"point"} \cup Gliders)
           \/ Len(parents) = 3 /\ \A i \in 1..3 : parents[i] \in {"number", "function"}
           \/ Len(parents) = 2 /\ FirstTwo({"coords"})
      [] op = "createArrow" -> FirstTwo({"point"} \cup Gliders)
      [] op = "createAxis" -> FirstTwo({"point", "coords", "short"} \cup Gliders)
      [] op = "createTangent" ->
           Len(parents) >= 1 /\ parents[1] \in {"gliderOnLine", "gliderOnCurve", "gliderOnCircle"}
      [] op = "createGrid" ->
           Len(parents) <= 2 /\ \A i \in 1..Len(parents) : parents[i] = "axis"
      [] OTHER -> TRUE

(* C19: every factory (line, segment, arrow, axis, tangent, grid) called   *)
(* with parents that match none of its accepted shapes throws before any   *)
(* element is created, and never returns undefined.                        *)
C19_MismatchThrows ==
    lastOp \in Factories =>
        /\ result # "undefined"
        /\ ~MatchesShape(lastOp) => (result = "threw" /\ created = 0)

(***************************************************************************)
(* The draw-zero flags of the major grid (SpecGrid).                       *)
(***************************************************************************)
(* The candidates of the major run made last. *)
MajorCandidates ==
    LET ok == finite(bbox, majorStep, TRUE)
    IN  candidates(columns(bbox, majorStep, ok), rows(bbox, majorStep, ok))

(* The boundary rule permits the candidate. *)
BoundaryPermits(c) ==
    \/ gridAttr.includeboundaries
    \/ /\ bbox[1] + majorRadiusX < c[1]
       /\ c[1] < bbox[3] - majorRadiusX
       /\ bbox[4] + majorRadiusY < c[2]
       /\ c[2] < bbox[2] - majorRadiusY

(* The one flag that decides about the candidate, if any. *)
ZeroFlagPermits(c) ==
    CASE Abs(c[1]) < Eps /\ Abs(c[2]) < Eps  -> gridAttr.drawzero0
      [] Abs(c[2]) < Eps /\ Abs(c[1]) >= Eps -> gridAttr.drawzerox
      [] Abs(c[1]) < Eps /\ Abs(c[2]) >= Eps -> gridAttr.drawzeroy
      [] OTHER -> TRUE

(* C25: a candidate on the x-axis other than the origin is emitted iff     *)
(* drawZeroX is true, one on the y-axis other than the origin iff          *)
(* drawZeroY is true, the origin iff drawZero0 is true whatever drawZeroX  *)
(* and drawZeroY are, and a candidate off both axes whatever the three     *)
(* flags are (each provided the boundary rule permits it).                 *)
C25_ZeroFlagsDisjoint ==
    MajorRan =>
        \A k \in 1..Len(MajorCandidates) :
            IsEmitted(emitted.major, MajorCandidates[k])
                <=> (ZeroFlagPermits(MajorCandidates[k]) /\ BoundaryPermits(MajorCandidates[k]))

(* The origin is drawn although the markers on both axes are switched off, *)
(* and a marker off the axes is drawn as well.                             *)
C25_Witness ==
    /\ MajorRan
    /\ gridAttr.drawzero0 /\ ~gridAttr.drawzerox /\ ~gridAttr.drawzeroy
    /\ IsEmitted(emitted.major, <<0, 0>>)
    /\ \E k \in 1..Len(MajorCandidates) :
           /\ MajorCandidates[k][2] = 0 /\ MajorCandidates[k][1] # 0
           /\ BoundaryPermits(MajorCandidates[k])
           /\ ~IsEmitted(emitted.major, MajorCandidates[k])
    /\ \E k \in 1..Len(MajorCandidates) :
           /\ MajorCandidates[k][2] # 0 /\ MajorCandidates[k][1] # 0
           /\ IsEmitted(emitted.major, MajorCandidates[k])

(***************************************************************************)
(* forceSquare (SpecGrid).                                                 *)
(***************************************************************************)
(* majorStep before forceSquare is applied. *)
OrigStep ==
    <<resolveStep(majorstep.v[1], gridAttr.axisDist[1], Abs(bbox[2] - bbox[4]), gridAttr.px[1]),
      resolveStep(majorstep.v[2], gridAttr.axisDist[2], Abs(bbox[1] - bbox[3]), gridAttr.px[2])>>

(* The steps in pixels, <<st[1]*unitX, st[2]*unitY>>, both multiplied by   *)
(* the lengths px[1]*px[2] of a pixel.                                     *)
PixelSteps(st) == <<st[1] * gridAttr.px[2], st[2] * gridAttr.px[1]>>

Min2(p) == IF p[1] <= p[2] THEN p[1] ELSE p[2]
Max2(p) == IF p[1] <= p[2] THEN p[2] ELSE p[1]

BothPixelSteps(st, v) == PixelSteps(st)[1] = v /\ PixelSteps(st)[2] = v

(* C21: with forceSquare = "min" both steps of the resolved majorStep are, *)
(* in pixels, the smaller of the two original pixel steps; with "max" or   *)
(* true the larger; with any other value the steps are unchanged.          *)
C21_ForceSquare ==
    [][MajorStepTaken =>
          CASE gridAttr.forcesquare = "min" ->
                 BothPixelSteps(majorStep', Min2(PixelSteps(OrigStep)))
            [] gridAttr.forcesquare \in {"max", "true"} ->
                 BothPixelSteps(majorStep', Max2(PixelSteps(OrigStep)))
            [] OTHER -> majorStep' = OrigStep]_vars

(* A percentage step whose two pixel steps differ was made square on the   *)
(* smaller one.                                                            *)
C21_Witness ==
    /\ MajorRan
    /\ gridAttr.forcesquare = "min"
    /\ ~majorstep.isArray
    /\ PixelSteps(OrigStep)[1] > PixelSteps(OrigStep)[2]
    /\ BothPixelSteps(majorStep, PixelSteps(OrigStep)[2])
    /\ majorStep # OrigStep

(***************************************************************************)
(* The data arrays (SpecGrid).                                             *)
(***************************************************************************)
(* dataX and dataY have the same length and NaN at the same indices, and   *)
(* are empty or end with NaN.                                              *)
Parallel(data) ==
    /\ Len(data.dataX) = Len(data.dataY)
    /\ \A j \in 1..Len(data.dataX) : (data.dataX[j] = NaN) <=> (data.dataY[j] = NaN)
    /\ data.dataX # <<>> => data.dataX[Len(data.dataX)] = NaN

(* C22: after every updateDataArray call, for every face and bounding box, *)
(* dataX and dataY have the same length, hold NaN at exactly the same      *)
(* indices, and are empty or end with NaN.                                 *)
C22_DataParallel ==
    Parallel(majorGrid) /\ Parallel(minorGrid)

(* Both grids hold markers of a face of two strokes or of a face of one    *)
(* closed outline.                                                         *)
C22_Witness ==
    /\ MinorRan
    /\ emitted.major # <<>>
    /\ emitted.minor # <<>>
    /\ \/ gridAttr.face = "cross" /\ Len(majorGrid.dataX) = 6 * Len(emitted.major)
       \/ gridAttr.face = "circle" /\ Len(majorGrid.dataX) = 14 * Len(emitted.major)
    /\ Len(minorGrid.dataX) = Len(minorGrid.dataY)

(***************************************************************************)
(* Minor markers and major markers (SpecGrid).                             *)
(***************************************************************************)
(* The distance of v to the nearest multiple of step. *)
ToNearestLine(v, step) ==
    Min2(<<Abs(v) % step, step - (Abs(v) % step)>>)

(* The extent of a minor marker at c keeps off every major grid line. *)
OffMajorLines(c) ==
    /\ ToNearestLine(c[1], majorStep[1]) - MinorRadiusNow[1] > majorRadiusX
    /\ ToNearestLine(c[2], majorStep[2]) - MinorRadiusNow[2] > majorRadiusY

(* With the major face "line" no emitted minor marker comes within the     *)
(* major radius of a major grid line.                                      *)
MinorsOffMajorLines ==
    gridAttr.face = "line" =>
        \A j \in 1..Len(emitted.minor) : OffMajorLines(emitted.minor[j])

(* With a glyph as major face no emitted minor marker overlaps a major     *)
(* marker that is drawn.                                                   *)
MinorsOffDrawnMajors ==
    gridAttr.face # "line" =>
        \A j \in 1..Len(emitted.minor) : \A k \in 1..Len(emitted.major) :
            ~ExtentsOverlap(emitted.minor[j], emitted.major[k])

(* A minor marker is emitted at a major grid position inside the box whose *)
(* major marker the draw-zero flags suppress (when the minor grid's own    *)
(* flags and the boundary rule do not suppress it).                        *)
MinorsReplaceSuppressedMajors ==
    (/\ gridAttr.face # "line"
     /\ gridAttr.minordrawzerox
     /\ gridAttr.minordrawzeroy
     /\ gridAttr.includeboundaries) =>
        \A k \in 1..Len(MajorCandidates) :
            (/\ ~ZeroFlagPermits(MajorCandidates[k])
             /\ MajorCandidates[k][1] >= bbox[1]) =>
                IsEmitted(emitted.minor, MajorCandidates[k])

(* C24: minor markers never overlap major markers: with the major face     *)
(* "line" none is emitted within the major radius of a major grid line;    *)
(* with a glyph none is emitted whose extent overlaps a major marker that  *)
(* is drawn, while one is still emitted where the major marker is          *)
(* suppressed by the major draw-zero flags.                                *)
C24_MinorNeverOnMajor ==
    (MinorRan /\ MajorCurrent) =>
        /\ MinorsOffMajorLines
        /\ MinorsOffDrawnMajors
        /\ MinorsReplaceSuppressedMajors

(***************************************************************************)
(* The vertical line and the segment's own points.                         *)
(***************************************************************************)
VerticalSlope == getSlope(point1, point2, board) = INF

(* The pointer lies beyond point1 on the side away from point2, and beyond *)
(* point2 on the side away from point1, in screen y.                       *)
BeyondPoint1 ==
    \/ ScrY(point1) < ScrY(point2) /\ PtrY < ScrY(point1)
    \/ ScrY(point1) > ScrY(point2) /\ PtrY > ScrY(point1)

BeyondPoint2 ==
    \/ ScrY(point1) < ScrY(point2) /\ PtrY > ScrY(point2)
    \/ ScrY(point1) > ScrY(point2) /\ PtrY < ScrY(point2)

(* The pointer's y is outside the closed interval of the two screen y.     *)
OutsideEndpointsY ==
    \/ PtrY < ScrY(point1) /\ PtrY < ScrY(point2)
    \/ PtrY > ScrY(point1) /\ PtrY > ScrY(point2)

(* The line has the pointer only within r pixels of point1's screen x.     *)
VerticalWithinR ==
    (~(straightFirst /\ straightLast) /\ has) =>
        Abs(PtrX - ScrX(point1)) < r * One

(* A side that is not extended has no pointer beyond its point.            *)
VerticalEndsClamped ==
    /\ (~straightFirst /\ BeyondPoint1) => ~has
    /\ (~straightLast /\ BeyondPoint2) => ~has

(* The vertical segment has no pointer outside its endpoints' interval.    *)
VerticalSegmentClosed ==
    (~straightFirst /\ ~straightLast /\ OutsideEndpointsY) => ~has

(* C23: for a line of vertical slope hasPoint is true only if the pointer  *)
(* is within r of point1's screen x and not beyond the point of a side     *)
(* that is not extended; a vertical segment has no pointer whose y is      *)
(* outside the closed interval of its endpoints' screen y, also when the   *)
(* two endpoints coincide.                                                 *)
C23_VerticalClamping ==
    (lastOp = "hasPoint" /\ VerticalSlope) =>
        /\ VerticalWithinR
        /\ VerticalEndsClamped
        /\ VerticalSegmentClosed

(* The pointer is at the screen coordinates of point1, of point2.          *)
PtrAtPoint1 == PtrX = ScrX(point1) /\ PtrY = ScrY(point1)
PtrAtPoint2 == PtrX = ScrX(point2) /\ PtrY = ScrY(point2)

(* C28: a segment (straightFirst = straightLast = false) of finite slope   *)
(* has the screen coordinates of point1 and of point2, under every         *)
(* viewport scale and every radius r >= 1: the slope of getSlope and the   *)
(* rise of getRise describe one line of the screen.                        *)
C28_SegmentHitAtOwnPoints ==
    (/\ lastOp = "hasPoint"
     /\ ~straightFirst
     /\ ~straightLast
     /\ FiniteSlope
     /\ (PtrAtPoint1 \/ PtrAtPoint2)) => has

(***************************************************************************)
(* The free line.                                                          *)
(***************************************************************************)
(* The line's stdform was computed from the coefficients at hand.          *)
FreeLineCurrent == lastOp \in {"init", "update"} /\ needsUpdate

(* The homogeneous point p satisfies c0*z + c1*x + c2*y = 0.               *)
OnFreeLine(p) ==
    parents[1] * p[1][2] + parents[2] * p[2][2] + parents[3] * p[3][2] = 0

(* v is a nonzero multiple of the coefficients: it is not the zero vector  *)
(* and its cross product with them is zero.                                *)
MultipleOfCoefficients(v) ==
    /\ \A i \in 1..3 : IsFinite(v[i])
    /\ \E i \in 1..3 : v[i][2] # 0
    /\ v[1][2] * parents[2] = v[2][2] * parents[1]
    /\ v[1][2] * parents[3] = v[3][2] * parents[1]
    /\ v[2][2] * parents[3] = v[3][2] * parents[2]

(* C27: for a free line of coefficients (c0, c1, c2) with (c1, c2) not     *)
(* (0, 0) the two auxiliary points satisfy c0*z + c1*x + c2*y = 0 and the  *)
(* stdform of updateStdform is a nonzero scalar multiple of (c0, c1, c2).  *)
C27_FreeLineStdform ==
    (<<parents[2], parents[3]>> # <<0, 0>>) =>
        /\ OnFreeLine(point1)
        /\ OnFreeLine(point2)
        /\ FreeLineCurrent =>
              /\ MultipleOfCoefficients(stdform.v)
              /\ IsFinite(stdform.n2)
              /\ stdform.n2[2] > 0

C27_Witness ==
    /\ lastOp = "update"
    /\ parents = <<1, 2, -1>>
    /\ stdform.v[1] # Fin(0)
    /\ MultipleOfCoefficients(stdform.v)

(***************************************************************************)
(* The default ticks of an axis.                                           *)
(***************************************************************************)
(* createAxis has made an axis whose ticks distance it computed from the   *)
(* clipped length.                                                         *)
AxisDistanceComputed ==
    /\ lastOp = "createAxis"
    /\ result = "element"
    /\ ~axis.given
    /\ axis.len > 0

(* C29: without a ticksDistance attribute createAxis computes the distance *)
(* of the default ticks from the clipped length L of the axis; for every   *)
(* L > 0 the computation ends and the distance is strictly positive.       *)
C29_DefaultTickDistancePositive ==
    AxisDistanceComputed => (axis.done /\ axis.dist > 0)

(***************************************************************************)
(* The ticks of a line.                                                    *)
(***************************************************************************)
(* The ticks objects attached to the line: the entries of this.ticks.      *)
Attached == {ticks[i] : i \in 1..Len(ticks)} \ {0}

(* The ticks objects whose calculateTicksCoordinates the last call made.   *)
Calculated == {tcalcs[i].tick : i \in 1..Len(tcalcs)}

(* Line.update calls calculateTicksCoordinates of attached ticks only.     *)
UpdateCalculatesAttached ==
    (lastOp = "update" /\ needsUpdate) => Calculated \subseteq Attached

(* The ids addTicks has assigned to the attached ticks differ.             *)
AttachedIdsDistinct ==
    \A s \in Attached : \A t \in Attached :
        s # t => tickId[s] # tickId[t]

(* defaultTicks is null or attached.                                       *)
DefaultTicksAttached == defaultTicks = 0 \/ defaultTicks \in Attached

(* C30: after any sequence of addTicks, removeTicks and removeAllTicks     *)
(* Line.update (needsUpdate true) calls calculateTicksCoordinates only of  *)
(* ticks that were added and not removed since, the ids addTicks assigned  *)
(* to the attached ticks are pairwise distinct, and defaultTicks is null   *)
(* or an attached ticks object.                                            *)
C30_TicksConsistent ==
    /\ UpdateCalculatesAttached
    /\ AttachedIdsDistinct
    /\ DefaultTicksAttached

(***************************************************************************)
(* The end of the enumeration.                                             *)
(***************************************************************************)
(* The minor step the last run of the minor grid resolved. *)
MinorStepResolved ==
    <<Quot(majorStep[1], ElementsNow[1] + 1), Quot(majorStep[2], ElementsNow[2] + 1)>>

NoData == [dataX |-> <<>>, dataY |-> <<>>]

(* The abort criterion held in the last run: no grid is drawn. *)
MajorAbortedEmpty ==
    (MajorRan /\ ~finite(bbox, majorStep, TRUE)) => majorGrid = NoData

MinorAbortedEmpty ==
    (MinorRan /\ ~finite(bbox, MinorStepResolved, FALSE)) => minorGrid = NoData

(* C26: the recomputation of the grid ends for every bounding box and      *)
(* every resolved step, a step that is 0, negative, NaN or infinite and    *)
(* minorElements = -1 included, and gives an empty grid whenever the       *)
(* abort criterion holds.                                                  *)
C26_RecomputationEnds ==
    /\ ~Hung
    /\ MajorAbortedEmpty
    /\ MinorAbortedEmpty
====
